---- MODULE Spec2Model ----
(***************************************************************************)
(* Verification model of the project dashboard extension:                  *)
(*   - the remote-type classifier (models.ts, Project.getRemoteType),      *)
(*   - the open routing (dashboard.ts, openProject / addToWorkspace),      *)
(*   - the container descriptor encoding (models.ts, getContainerHex),     *)
(*   - the handlers that read, change and persist the group list.          *)
(*                                                                         *)
(* Strings are sequences of characters.  In path strings the fixed         *)
(* substrings the code looks for ('vscode-remote://', 'ssh-remote+', ...)  *)
(* are single characters of the alphabet, so that startsWith, match,       *)
(* replace and trim are computed on sequences as the code computes them on *)
(* strings.                                                                *)
(***************************************************************************)
EXTENDS Integers, Sequences, FiniteSets, TLC

VARIABLES
    wslAnchored,   \* whether WSL_DEFAULT_REGEX is anchored at the start of the string
    cProject,      \* classifier: the project handed to getRemoteType
    cBefore,       \* classifier: the same project before the call
    cResult,       \* classifier: the value returned ("pending" before the call)
    cDone,         \* classifier: the call has returned
    hName,         \* encoder: the two container names handed to getContainerHex
    hContext,      \* encoder: the context name
    hOut,          \* encoder: the two values returned
    hDone,         \* encoder: the calls have returned
    oProject,      \* open: the project handed to openProject
    oType,         \* open: the requested ProjectOpenType
    workspace,     \* vscode.workspace: workspaceFile and workspaceFolders
    prependWsl,    \* configuration dashboard.prependVscodeUrlToWslRemotes
    instance,      \* the dashboard panel: "panel", or "null" when there is none
    reopenKey,     \* context.globalState[REOPEN_KEY]
    commands,      \* open: the host commands executed, in order
    messages,      \* open: the messages shown to the user, in order
    oThrown,       \* open: the error openProject raised, "none" when it returned
    oPhase,        \* open: "idle" before the call, "done" after it
    oBefore,       \* open: workspace, reopenKey and instance before the call
    groups,        \* the persisted group list (projectService.getGroups())
    nextId,        \* the number of ids generateRandomId has produced, plus one
    sLast,         \* store: the last handler that ran, with its argument and the list before it
    pending,       \* store: the handler that waits for the answer to a prompt, with what it read
    storage,       \* the two storage backends, the configuration flag and the migration runs
    lookup,        \* the file system and git answers to one lookup, and what the lookup returned
    window         \* the window's session: start-ups, live panels, the suspended addToWorkspace

clsVars == <<cProject, cBefore, cResult, cDone>>

hexVars == <<hName, hContext, hOut, hDone>>

openVars ==
    <<oProject, oType, workspace, prependWsl, instance, reopenKey, commands, messages,
      oThrown, oPhase, oBefore>>

storeVars == <<groups, nextId, sLast, pending>>

hostVars == <<storage, lookup, window>>

vars == <<wslAnchored, clsVars, hexVars, openVars, storeVars, hostVars>>

-----------------------------------------------------------------------------
(* Bounds *)

\* longest path string handed to the classifier
MaxPathLen == 3

\* longest container name handed to the encoder
MaxNameLen == 2

\* longest rest of a stored path, after its start, handed to openProject
MaxRestLen == 2

\* the number of ids in a list an earlier session saved
MaxIds == 3

\* most entries of a groupOrders argument, and most groups of a saved list
MaxOrders == 2

\* most project ids in one entry of a groupOrders argument, and most projects of a saved group
MaxOrderIds == 2

-----------------------------------------------------------------------------
(* JavaScript values: null/undefined and strings *)

Null == [t |-> "null"]

Str(s) == [t |-> "str", s |-> s]

\* an array
Arr(a) == [t |-> "arr", a |-> a]

\* JavaScript truthiness of a string-or-null value: `this.path && ...`
Truthy(v) == v.t = "str" /\ v.s # <<>>

\* All sequences over S of length at most n
SeqUpTo(S, n) == UNION {[1..k -> S] : k \in 0..n}

-----------------------------------------------------------------------------
(* The parts of the state a specification does not use stay at these values *)

ClassifyIdle ==
    /\ cProject = [path |-> Null]
    /\ cBefore = [path |-> Null]
    /\ cResult = "pending"
    /\ cDone = FALSE

HexIdle ==
    /\ hName = <<Null, Null>>
    /\ hContext = <<>>
    /\ hOut = <<Null, Null>>
    /\ hDone = FALSE

OpenIdle ==
    /\ oProject = [path |-> Null]
    /\ oType = "Default"
    /\ workspace = [workspaceFile |-> Null, workspaceFolders |-> Null]
    /\ prependWsl = FALSE
    /\ instance = "null"
    /\ reopenKey = "None"
    /\ commands = <<>>
    /\ messages = <<>>
    /\ oThrown = "none"
    /\ oPhase = "idle"
    /\ oBefore = <<workspace, reopenKey, instance>>

StoreIdle ==
    /\ groups = <<>>
    /\ nextId = 0
    /\ sLast = [op |-> "idle"]
    /\ pending = [op |-> "none"]

HostIdle ==
    /\ storage = [op |-> "idle"]
    /\ lookup = [op |-> "idle"]
    /\ window = [op |-> "idle"]

-----------------------------------------------------------------------------
(* constants.ts *)

VSCODE_REMOTE == "vscode-remote://"

SSH_REMOTE_PREFIX == <<VSCODE_REMOTE, "ssh-remote+">>

DEV_CONTAINER_PREFIX == <<VSCODE_REMOTE, "dev-container+">>

\* the literal 'vscode-remote://wsl+' of models.ts line 60
VSCODE_REMOTE_WSL == <<VSCODE_REMOTE, "wsl+">>

\* the text WSL_DEFAULT_REGEX matches (a WSL network share root)
WSL_SHARE == "//wsl$/"

\* the characters of path strings
PathChars == {VSCODE_REMOTE, "ssh-remote+", "wsl+", "dev-container+", WSL_SHARE, "/", "a", " "}

ProjectRemoteType == {"None", "SSH", "WSL", "CONTAINER"}

-----------------------------------------------------------------------------
(* String primitives *)

\* String.prototype.startsWith
startsWith(s, prefix) ==
    /\ Len(s) >= Len(prefix)
    /\ SubSeq(s, 1, Len(prefix)) = prefix

\* String.prototype.match(WSL_DEFAULT_REGEX): a search, from the start of the
\* string only when the expression is anchored
matchWSL(s) ==
    IF wslAnchored
    THEN s # <<>> /\ s[1] = WSL_SHARE
    ELSE \E i \in 1..Len(s) : s[i] = WSL_SHARE

-----------------------------------------------------------------------------
(* models.ts: Project.getRemoteType / getRemoteType *)

\* the classifier with the WSL test ahead of the SSH test
getRemoteTypeWslFirst(project) ==
    IF Truthy(project.path)
       /\ (matchWSL(project.path.s) \/ startsWith(project.path.s, VSCODE_REMOTE_WSL))
    THEN "WSL"
    ELSE IF Truthy(project.path) /\ startsWith(project.path.s, SSH_REMOTE_PREFIX)
    THEN "SSH"
    ELSE IF Truthy(project.path) /\ startsWith(project.path.s, DEV_CONTAINER_PREFIX)
    THEN "CONTAINER"
    ELSE "None"

\* the classifier without the `this.path &&` guards: startsWith of an absent
\* path raises a TypeError
getRemoteTypeUnguarded(project) ==
    IF project.path.t # "str"
    THEN "TypeError"
    ELSE IF startsWith(project.path.s, SSH_REMOTE_PREFIX)
    THEN "SSH"
    ELSE IF matchWSL(project.path.s) \/ startsWith(project.path.s, VSCODE_REMOTE_WSL)
    THEN "WSL"
    ELSE IF startsWith(project.path.s, DEV_CONTAINER_PREFIX)
    THEN "CONTAINER"
    ELSE "None"

\* the classifier without the 'vscode-remote://wsl+' alternative
getRemoteTypeRegexOnly(project) ==
    IF Truthy(project.path) /\ startsWith(project.path.s, SSH_REMOTE_PREFIX)
    THEN "SSH"
    ELSE IF Truthy(project.path) /\ matchWSL(project.path.s)
    THEN "WSL"
    ELSE IF Truthy(project.path) /\ startsWith(project.path.s, DEV_CONTAINER_PREFIX)
    THEN "CONTAINER"
    ELSE "None"

getRemoteType(project) ==
    IF Truthy(project.path) /\ startsWith(project.path.s, SSH_REMOTE_PREFIX)
    THEN "SSH"
    ELSE IF Truthy(project.path)
            /\ (matchWSL(project.path.s) \/ startsWith(project.path.s, VSCODE_REMOTE_WSL))
    THEN "WSL"
    ELSE IF Truthy(project.path) /\ startsWith(project.path.s, DEV_CONTAINER_PREFIX)
    THEN "CONTAINER"
    ELSE "None"

-----------------------------------------------------------------------------
(* Strings of UTF-16 code units, as charCodeAt reads them *)

\* the digits of Number.prototype.toString(16)
HexDigits == <<"0", "1", "2", "3", "4", "5", "6", "7", "8", "9", "a", "b", "c", "d", "e", "f">>

\* the value of a hexadecimal digit
HexValue(d) == (CHOOSE i \in 1..16 : HexDigits[i] = d) - 1

\* Number.prototype.toString(10), in place of toString(16)
RECURSIVE toStringDecimal(_)
toStringDecimal(n) ==
    IF n < 10
    THEN <<HexDigits[n + 1]>>
    ELSE toStringDecimal(n \div 10) \o <<HexDigits[(n % 10) + 1]>>

\* Number.prototype.toString(16): no leading zeros
RECURSIVE toString16(_)
toString16(n) ==
    IF n < 16
    THEN <<HexDigits[n + 1]>>
    ELSE toString16(n \div 16) \o <<HexDigits[(n % 16) + 1]>>

\* the code units of a text of digits
DigitCodes(ds) ==
    [i \in 1..Len(ds) |->
        IF HexValue(ds[i]) < 10 THEN 48 + HexValue(ds[i]) ELSE 87 + HexValue(ds[i])]

\* JSON.stringify of one code unit inside a string (QuoteJSONString); the
\* units of the model hold no surrogates
JSONEscapeUnit(c) ==
    IF c = 34 THEN <<92, 34>>
    ELSE IF c = 92 THEN <<92, 92>>
    ELSE IF c = 8 THEN <<92, 98>>
    ELSE IF c = 9 THEN <<92, 116>>
    ELSE IF c = 10 THEN <<92, 110>>
    ELSE IF c = 12 THEN <<92, 102>>
    ELSE IF c = 13 THEN <<92, 114>>
    ELSE IF c < 16 THEN <<92, 117, 48, 48, 48>> \o DigitCodes(toString16(c))
    ELSE IF c < 32 THEN <<92, 117, 48, 48>> \o DigitCodes(toString16(c))
    ELSE <<c>>

\* JSON.stringify of a string: the quoted, escaped text
RECURSIVE JSONEscape(_)
JSONEscape(s) ==
    IF s = <<>> THEN <<>> ELSE JSONEscapeUnit(Head(s)) \o JSONEscape(Tail(s))

JSONQuote(s) == <<34>> \o JSONEscape(s) \o <<34>>

\* the property names of the container object
KeyContainerName == <<99, 111, 110, 116, 97, 105, 110, 101, 114, 78, 97, 109, 101>>

KeySettings == <<115, 101, 116, 116, 105, 110, 103, 115>>

KeyContext == <<99, 111, 110, 116, 101, 120, 116>>

\* the default of the contextName parameter, "desktop-linux"
DefaultContextName == <<100, 101, 115, 107, 116, 111, 112, 45, 108, 105, 110, 117, 120>>

\* JSON.stringify(containerObject), without indentation
JSONstringify(containerObject) ==
    <<123>> \o JSONQuote(KeyContainerName) \o <<58>> \o JSONQuote(containerObject.containerName)
    \o <<44>> \o JSONQuote(KeySettings) \o <<58>>
    \o <<123>> \o JSONQuote(KeyContext) \o <<58>> \o JSONQuote(containerObject.settings.context)
    \o <<125>> \o <<125>>

\* the loop of getContainerHex: objectHex += objString.charCodeAt(i).toString(16)
RECURSIVE objectHexOf(_)
objectHexOf(objString) ==
    IF objString = <<>>
    THEN <<>>
    ELSE toString16(Head(objString)) \o objectHexOf(Tail(objString))

-----------------------------------------------------------------------------
(* models.ts: getContainerHex *)

getContainerHex(containerName, contextName) ==
    IF containerName = Null
    THEN Null
    ELSE LET containerObject ==
                 [containerName |-> <<47>> \o containerName.s,
                  settings |-> [context |-> contextName]]
             objString == JSONstringify(containerObject)
         IN  Str(objectHexOf(objString))

-----------------------------------------------------------------------------
(* String operations of the open routing *)

\* String.prototype.trim: white space removed from both ends
RECURSIVE trimStart(_)
trimStart(s) == IF s # <<>> /\ Head(s) = " " THEN trimStart(Tail(s)) ELSE s

RECURSIVE trimEnd(_)
trimEnd(s) ==
    IF s # <<>> /\ s[Len(s)] = " " THEN trimEnd(SubSeq(s, 1, Len(s) - 1)) ELSE s

trim(s) == trimEnd(trimStart(s))

\* the first position at which pattern occurs in s, 0 when it does not
indexOf(s, pattern) ==
    IF \E i \in 1..(Len(s) - Len(pattern) + 1) : SubSeq(s, i, i + Len(pattern) - 1) = pattern
    THEN CHOOSE i \in 1..(Len(s) - Len(pattern) + 1) :
             /\ SubSeq(s, i, i + Len(pattern) - 1) = pattern
             /\ \A j \in 1..(i - 1) : SubSeq(s, j, j + Len(pattern) - 1) # pattern
    ELSE 0

\* String.prototype.replace(pattern, replacement) with a string pattern: the
\* first occurrence only
replace(s, pattern, replacement) ==
    LET i == indexOf(s, pattern)
    IN  IF i = 0
        THEN s
        ELSE SubSeq(s, 1, i - 1) \o replacement \o SubSeq(s, i + Len(pattern), Len(s))

\* String.prototype.replace(WSL_DEFAULT_REGEX, ''): the matched text removed
replaceWSL(s) == IF matchWSL(s) THEN replace(s, <<WSL_SHARE>>, <<>>) ELSE s

\* String.prototype.includes('://'): only 'vscode-remote://' holds it
includesSchemeSeparator(s) == \E i \in 1..Len(s) : s[i] = VSCODE_REMOTE

\* path.isAbsolute
isAbsolute(p) == p # <<>> /\ p[1] \in {"/", WSL_SHARE}

\* path.normalize, for paths without '.' and '..' segments: runs of
\* separators become one separator
RECURSIVE normalize(_)
normalize(p) ==
    IF Len(p) < 2 THEN p
    ELSE IF p[1] = "/" /\ p[2] = "/" THEN normalize(Tail(p))
    ELSE <<p[1]>> \o normalize(Tail(p))

\* path.join(a, b): the non-empty segments joined by a separator, normalized
pathJoin(a, b) == IF b = <<>> THEN normalize(a) ELSE normalize(a \o <<"/">> \o b)

\* the position of the first separator in s, 0 when there is none
firstSlash(s) == indexOf(s, <<"/">>)

\* String.prototype.match(SSH_REGEX): a host, then an optional folder that
\* starts at the first separator
matchSSH(s) ==
    IF s = <<>> \/ s[1] = "/"
    THEN Null
    ELSE [t |-> "match",
          groups |-> [folder |-> IF firstSlash(s) = 0
                                 THEN Null
                                 ELSE Str(SubSeq(s, firstSlash(s), Len(s)))]]

\* String.prototype.match(CONTAINER_REGEX): a container name, then an
\* optional folder that starts at the first separator
matchCONTAINER(s) ==
    IF s = <<>> \/ s[1] = "/"
    THEN Null
    ELSE [t |-> "match",
          groups |-> [containername |-> IF firstSlash(s) = 0
                                        THEN Str(s)
                                        ELSE Str(SubSeq(s, 1, firstSlash(s) - 1)),
                      folder |-> IF firstSlash(s) = 0
                                 THEN Null
                                 ELSE Str(SubSeq(s, firstSlash(s), Len(s)))]]

\* the UTF-16 code units of one character of a path string
CharCodes(c) ==
    CASE c = VSCODE_REMOTE ->
             <<118, 115, 99, 111, 100, 101, 45, 114, 101, 109, 111, 116, 101, 58, 47, 47>>
      [] c = "ssh-remote+" -> <<115, 115, 104, 45, 114, 101, 109, 111, 116, 101, 43>>
      [] c = "wsl+" -> <<119, 115, 108, 43>>
      [] c = "dev-container+" ->
             <<100, 101, 118, 45, 99, 111, 110, 116, 97, 105, 110, 101, 114, 43>>
      [] c = WSL_SHARE -> <<47, 47, 119, 115, 108, 36, 47>>
      [] c = "/" -> <<47>>
      [] c = "a" -> <<97>>
      [] c = " " -> <<32>>

\* the code units of a path string
RECURSIVE CodeUnits(_)
CodeUnits(s) == IF s = <<>> THEN <<>> ELSE CharCodes(Head(s)) \o CodeUnits(Tail(s))

-----------------------------------------------------------------------------
(* vscode.Uri and vscode.workspace *)

\* vscode.Uri.file(path)
UriFile(p) == [from |-> "file", text |-> p]

\* vscode.Uri.parse(text)
UriParse(p) == [from |-> "parse", text |-> p]

ProjectOpenType == {"Default", "NewWindow", "AddToWorkspace"}

ProjectPathType == {"Folder", "WorkspaceFile", "File"}

\* the path of the folder of a single-folder workspace
FolderRoot == <<"/", "folder">>

\* the path of a saved workspace file; its folder is FolderRoot
WorkspaceFilePath == <<"/", "saved.code-workspace">>

\* vscode.workspace as a window can have it: no workspace (workspaceFolders is
\* undefined), one folder, a saved workspace file with a folder or with none
WorkspaceStates ==
    { [workspaceFile |-> Null, workspaceFolders |-> Null],
      [workspaceFile |-> Null, workspaceFolders |-> Arr(<<FolderRoot>>)],
      [workspaceFile |-> Str(WorkspaceFilePath), workspaceFolders |-> Arr(<<FolderRoot>>)],
      [workspaceFile |-> Str(WorkspaceFilePath), workspaceFolders |-> Arr(<<>>)] }

\* what the file system answers to addToWorkspace: the type of the project
\* path, the folders read from a workspace file (Null when reading fails), and
\* whether updateWorkspaceFolders accepts the change
FileSystemAnswers ==
    [pathType : {"Folder"}, folderPaths : {Null}, couldOpen : BOOLEAN]
    \cup [pathType : {"File"}, folderPaths : {Null}, couldOpen : {TRUE}]
    \cup [pathType : {"WorkspaceFile"}, folderPaths : {Null}, couldOpen : {TRUE}]
    \cup [pathType : {"WorkspaceFile"},
          folderPaths : {Arr(<<>>), Arr(<<FolderRoot, <<"/", "other">>>>)},
          couldOpen : BOOLEAN]

\* the file system is not asked: openProject does not reach addToWorkspace
NotAsked == [pathType |-> "Folder", folderPaths |-> Null, couldOpen |-> TRUE]

\* what a handler has done so far
NoEffects ==
    [commands |-> <<>>, messages |-> <<>>, thrown |-> "none",
     added |-> <<>>, reopenKey |-> Null, disposed |-> FALSE]

-----------------------------------------------------------------------------
(* dashboard.ts: addToWorkspace *)

\* a filter that keeps every folder of the project
allFolders(wsToAdd, workspaceFolders) == wsToAdd

RECURSIVE notInWorkspace(_, _)
notInWorkspace(wsToAdd, workspaceFolders) ==
    IF wsToAdd = <<>> THEN <<>>
    ELSE IF \E i \in 1..Len(workspaceFolders) :
                normalize(workspaceFolders[i]) = normalize(Head(wsToAdd))
    THEN notInWorkspace(Tail(wsToAdd), workspaceFolders)
    ELSE <<Head(wsToAdd)>> \o notInWorkspace(Tail(wsToAdd), workspaceFolders)

addToWorkspace(project, uri, ws, panel, fs) ==
    LET workspaceFolders ==
            IF ws.workspaceFolders = Null THEN <<>> ELSE ws.workspaceFolders.a
        wsToAdd ==
            IF fs.pathType = "Folder" THEN <<uri.text>> ELSE fs.folderPaths.a
        filtered == notInWorkspace(wsToAdd, workspaceFolders)
        isNewWorkSpace == ws.workspaceFile = Null
    IN  IF fs.pathType = "File"
        THEN [NoEffects EXCEPT
                 !.messages = <<"A file project cannot be added to the workspace.">>]
        ELSE IF fs.pathType = "WorkspaceFile" /\ fs.folderPaths = Null
        THEN [NoEffects EXCEPT
                 !.messages = <<"Could not read the project's workspace file.">>]
        ELSE IF filtered = <<>>
        THEN NoEffects
        ELSE IF ~fs.couldOpen
        THEN [NoEffects EXCEPT !.messages = <<"Could not add project to workspace.">>]
        ELSE IF ~isNewWorkSpace
        THEN [NoEffects EXCEPT !.added = filtered]
        ELSE IF panel = "null"
        THEN [NoEffects EXCEPT
                 !.added = filtered,
                 !.reopenKey = Str("EditorReopenedAsWorkspace"),
                 !.thrown = "TypeError"]
        ELSE [NoEffects EXCEPT
                 !.added = filtered,
                 !.reopenKey = Str("EditorReopenedAsWorkspace"),
                 !.disposed = TRUE]

-----------------------------------------------------------------------------
(* dashboard.ts: openProject *)

\* lines 981-992: a relative path is joined onto rootPath.  The result is the
\* path to open, or "warning" when rootPath is empty, or "TypeError" when
\* workspaceFolders is undefined and [0] is read from it
resolveProjectPath(projectPath, ws) ==
    IF isAbsolute(projectPath) \/ includesSchemeSeparator(projectPath)
    THEN [t |-> "path", s |-> projectPath]
    ELSE IF Truthy(ws.workspaceFile)
    THEN [t |-> "path", s |-> pathJoin(ws.workspaceFile.s, projectPath)]
    ELSE IF ws.workspaceFolders = Null
    THEN [t |-> "TypeError"]
    ELSE IF ws.workspaceFolders.a = <<>>
    THEN [t |-> "warning"]
    ELSE [t |-> "path", s |-> pathJoin(ws.workspaceFolders.a[1], projectPath)]

openFolder(uri, newWindow) ==
    [command |-> "vscode.openFolder", uri |-> uri, newWindow |-> newWindow]

newWindow(remoteAuthority, reuseWindow) ==
    [command |-> "vscode.newWindow", remoteAuthority |-> remoteAuthority,
     reuseWindow |-> reuseWindow]

\* lines 1008-1021
openSSH(projectPath, openInNewWindow) ==
    LET remotePathMatch == matchSSH(replace(projectPath, SSH_REMOTE_PREFIX, <<>>))
        hasRemoteFolder == remotePathMatch # Null /\ remotePathMatch.groups.folder # Null
    IN  IF hasRemoteFolder
        THEN [NoEffects EXCEPT
                 !.commands = <<openFolder(UriParse(projectPath), openInNewWindow)>>]
        ELSE [NoEffects EXCEPT
                 !.commands = <<newWindow(replace(projectPath, <<VSCODE_REMOTE>>, <<>>),
                                          ~openInNewWindow)>>]

\* lines 1022-1031
openWSL(projectPath, openInNewWindow, prependVscodeUrlToWslRemotes) ==
    LET path2 == IF prependVscodeUrlToWslRemotes /\ matchWSL(projectPath)
                 THEN VSCODE_REMOTE_WSL \o replaceWSL(projectPath)
                 ELSE projectPath
    IN  [NoEffects EXCEPT !.commands = <<openFolder(UriParse(path2), openInNewWindow)>>]

\* lines 1032-1056: .groups is read from the match before it is tested
openCONTAINER(projectPath, openInNewWindow) ==
    LET containerPathMatch ==
            matchCONTAINER(replace(projectPath, DEV_CONTAINER_PREFIX, <<>>))
    IN  IF containerPathMatch = Null
        THEN [NoEffects EXCEPT !.thrown = "TypeError"]
        ELSE
        LET containerName == containerPathMatch.groups.containername
            containerHex ==
                getContainerHex(Str(CodeUnits(containerName.s)), DefaultContextName)
            hasContainerFolder == containerPathMatch.groups.folder # Null
            path2 == replace(projectPath,
                             DEV_CONTAINER_PREFIX \o containerName.s,
                             DEV_CONTAINER_PREFIX \o containerHex.s)
        IN  IF containerHex = Null
            THEN NoEffects
            ELSE IF hasContainerFolder
            THEN [NoEffects EXCEPT
                     !.commands = <<openFolder(UriParse(path2), openInNewWindow)>>]
            ELSE [NoEffects EXCEPT
                     !.commands = <<newWindow(replace(path2, <<VSCODE_REMOTE>>, <<>>),
                                              ~openInNewWindow)>>]

\* lines 998-1007 without the else: openFolder is executed after addToWorkspace too
openLocalFallsThrough(project, projectPath, projectOpenType, ws, panel, fs) ==
    LET added == IF projectOpenType = "AddToWorkspace"
                 THEN addToWorkspace(project, UriFile(projectPath), ws, panel, fs)
                 ELSE NoEffects
    IN  [added EXCEPT
            !.commands = <<openFolder(UriFile(projectPath), projectOpenType = "NewWindow")>>]

\* lines 998-1007
openLocal(project, projectPath, projectOpenType, ws, panel, fs) ==
    IF projectOpenType = "AddToWorkspace"
    THEN addToWorkspace(project, UriFile(projectPath), ws, panel, fs)
    ELSE [NoEffects EXCEPT
             !.commands = <<openFolder(UriFile(projectPath),
                                       projectOpenType = "NewWindow")>>]

openProject(project, projectOpenType, ws, prependVscodeUrlToWslRemotes, panel, fs) ==
    LET remoteType == getRemoteType(project)
        projectPath == trim(IF Truthy(project.path) THEN project.path.s ELSE <<>>)
        resolved == resolveProjectPath(projectPath, ws)
        openInNewWindow == projectOpenType = "NewWindow"
    IN  IF resolved.t = "TypeError"
        THEN [NoEffects EXCEPT !.thrown = "TypeError"]
        ELSE IF resolved.t = "warning"
        THEN [NoEffects EXCEPT
                 !.messages = <<"Tried to open a project with a relative path, but no workspace is open.">>]
        ELSE IF remoteType = "None"
        THEN openLocal(project, resolved.s, projectOpenType, ws, panel, fs)
        ELSE IF remoteType = "SSH"
        THEN openSSH(resolved.s, openInNewWindow)
        ELSE IF remoteType = "WSL"
        THEN openWSL(resolved.s, openInNewWindow, prependVscodeUrlToWslRemotes)
        ELSE openCONTAINER(resolved.s, openInNewWindow)

-----------------------------------------------------------------------------
(* Specification of the encoder: two calls on arbitrary container names *)

\* the code units of container names: line feed, '"', 'a', U+00E9, U+6161
NameUnits == {10, 34, 97, 233, 24929}

ContainerNames == {Str(s) : s \in SeqUpTo(NameUnits, MaxNameLen)} \cup {Null}

ContextNames == {DefaultContextName, <<97>>}

HexInit ==
    /\ wslAnchored = TRUE
    /\ HostIdle
    /\ ClassifyIdle
    /\ OpenIdle
    /\ StoreIdle
    /\ hName \in ContainerNames \X ContainerNames
    /\ hContext \in ContextNames
    /\ hOut = <<Null, Null>>
    /\ hDone = FALSE

\* getContainerHex(name, context), once for each of the two names
Encode ==
    /\ ~hDone
    /\ hOut' = <<getContainerHex(hName[1], hContext), getContainerHex(hName[2], hContext)>>
    /\ hDone' = TRUE
    /\ UNCHANGED <<wslAnchored, hostVars, clsVars, openVars, storeVars, hName, hContext>>

HexNext == Encode

SpecHex == HexInit /\ [][HexNext]_vars

-----------------------------------------------------------------------------
(* Specification of the open routing: one call of openProject *)

\* how a stored path can start: nothing, a remote prefix, a WSL share, a
\* separator, each after an optional blank
PathStarts ==
    {lead \o start :
        lead \in {<<>>, <<" ">>},
        start \in {<<>>, SSH_REMOTE_PREFIX, VSCODE_REMOTE_WSL, DEV_CONTAINER_PREFIX,
                   <<VSCODE_REMOTE>>, <<WSL_SHARE>>, <<"/">>}}

\* the projects that can be opened: a stored path is a start followed by any
\* string of name characters, separators, blanks and WSL shares; or no path
OpenProjects ==
    {[path |-> Str(start \o rest)] :
        start \in PathStarts, rest \in SeqUpTo({"a", "/", " ", WSL_SHARE}, MaxRestLen)}
    \cup {[path |-> Null]}

\* openProject is called for a 'selected-project' message of the panel, with
\* any open type, or by openProjectInWindow, with Default or NewWindow and
\* with or without a panel
OpenInit ==
    /\ ClassifyIdle
    /\ HexIdle
    /\ StoreIdle
    /\ wslAnchored \in BOOLEAN
    /\ HostIdle
    /\ oProject \in OpenProjects
    /\ oType \in ProjectOpenType
    /\ workspace \in WorkspaceStates
    /\ prependWsl \in BOOLEAN
    /\ instance \in {"panel", "null"}
    /\ oType = "AddToWorkspace" => instance = "panel"
    /\ reopenKey = "None"
    /\ commands = <<>>
    /\ messages = <<>>
    /\ oThrown = "none"
    /\ oPhase = "idle"
    /\ oBefore = <<workspace, reopenKey, instance>>

\* updateWorkspaceFolders(workspaceFolders.size, null, ...wsToAdd)
updateWorkspaceFolders(ws, added) ==
    IF added = <<>>
    THEN ws
    ELSE [ws EXCEPT !.workspaceFolders =
             Arr((IF ws.workspaceFolders = Null THEN <<>> ELSE ws.workspaceFolders.a)
                 \o added)]

\* openProject(project, projectOpenType), with what the file system answers
OpenProject ==
    /\ oPhase = "idle"
    /\ \E fs \in (IF oType = "AddToWorkspace" THEN FileSystemAnswers ELSE {NotAsked}) :
          LET done == openProject(oProject, oType, workspace, prependWsl, instance, fs)
          IN  /\ commands' = done.commands
              /\ messages' = done.messages
              /\ oThrown' = done.thrown
              /\ workspace' = updateWorkspaceFolders(workspace, done.added)
              /\ reopenKey' = IF done.reopenKey = Null THEN reopenKey ELSE done.reopenKey.s
              /\ instance' = IF done.disposed THEN "null" ELSE instance
    /\ oPhase' = "done"
    /\ UNCHANGED <<wslAnchored, hostVars, clsVars, hexVars, storeVars, oProject, oType, prependWsl,
                   oBefore>>

OpenNext == OpenProject

SpecOpen == OpenInit /\ [][OpenNext]_vars

-----------------------------------------------------------------------------
(* The open routing's claims *)

\* the path openProject works on: the stored path, trimmed
OpenedPath == trim(IF Truthy(oProject.path) THEN oProject.path.s ELSE <<>>)

\* the path is relative: not absolute and without '://'
RelativePath == ~isAbsolute(OpenedPath) /\ ~includesSchemeSeparator(OpenedPath)

\* no workspace is open in the window: no workspace file and no folder
NoWorkspaceOpen ==
    /\ oBefore[1].workspaceFile = Null
    /\ oBefore[1].workspaceFolders = Null \/ oBefore[1].workspaceFolders.a = <<>>

\* C4 (as stated): a call of openProject that does not abort on an
\* unresolvable relative path invokes exactly one host command, for every
\* remote type and open mode
C4_ExactlyOneCommand ==
    oPhase = "done" /\ ~(RelativePath /\ NoWorkspaceOpen) => Len(commands) = 1

\* the path of a CONTAINER project names no container
NamesNoContainer ==
    /\ getRemoteType(oProject) = "CONTAINER"
    /\ matchCONTAINER(replace(OpenedPath, DEV_CONTAINER_PREFIX, <<>>)) = Null

\* C4 (amended): openProject invokes at most one host command, and exactly
\* one except when it aborts on an unresolvable relative path, when a local
\* project is added to the workspace, and when a CONTAINER path names no
\* container
C4_AtMostOneCommand ==
    oPhase = "done" =>
        /\ Len(commands) <= 1
        /\ Len(commands) = 1 <=>
              /\ ~(RelativePath /\ NoWorkspaceOpen)
              /\ ~(getRemoteType(oProject) = "None" /\ oType = "AddToWorkspace")
              /\ ~NamesNoContainer

\* a local folder project was added to the workspace without any host command
C4_Witness ==
    /\ oPhase = "done"
    /\ oType = "AddToWorkspace"
    /\ getRemoteType(oProject) = "None"
    /\ workspace # oBefore[1]
    /\ commands = <<>>

\* C5 (as stated): for a relative path and no open workspace the user is
\* shown the warning, no host command is invoked, no state is changed and
\* openProject returns without raising an error
C5_RelativeWithoutWorkspace ==
    oPhase = "done" /\ RelativePath /\ NoWorkspaceOpen =>
        /\ messages =
              <<"Tried to open a project with a relative path, but no workspace is open.">>
        /\ commands = <<>>
        /\ oThrown = "none"
        /\ <<workspace, reopenKey, instance>> = oBefore

\* C6 (as stated): a relative local path opened while a workspace is open is
\* dispatched as the path joined onto the root folder of the workspace, for a
\* single folder and for a saved workspace file alike
C6_JoinedOntoRootFolder ==
    /\ oPhase = "done"
    /\ RelativePath
    /\ getRemoteType(oProject) = "None"
    /\ oBefore[1].workspaceFolders # Null
    /\ oBefore[1].workspaceFolders.a # <<>>
    /\ commands # <<>>
    => commands[1].uri = UriFile(pathJoin(oBefore[1].workspaceFolders.a[1], OpenedPath))

-----------------------------------------------------------------------------
(* The encoder's claims *)

\* decoding a text of hexadecimal digits two digits at a time; <<-1>> when
\* the text has an odd number of digits
RECURSIVE DecodeHexPairs(_)
DecodeHexPairs(h) ==
    IF h = <<>> THEN <<>>
    ELSE IF Len(h) = 1 THEN <<-1>>
    ELSE <<16 * HexValue(h[1]) + HexValue(h[2])>> \o DecodeHexPairs(SubSeq(h, 3, Len(h)))

\* the JSON text of {containerName: '/' + name, settings: {context}}
DescriptorText(name, context) ==
    <<123, 34>> \o KeyContainerName \o <<34, 58, 34, 47>> \o JSONEscape(name)
    \o <<34, 44, 34>> \o KeySettings \o <<34, 58, 123, 34>> \o KeyContext
    \o <<34, 58, 34>> \o JSONEscape(context) \o <<34, 125, 125>>

\* every code unit of the name is below 256
Latin1(name) == name = Null \/ \A i \in 1..Len(name.s) : name.s[i] < 256

\* the names the statement of C7 covers: every name, or the names of units below 256
Covered(name, latin1Only) == latin1Only => Latin1(name)

\* the statement of C7 for the names covered
HexEncodes(latin1Only) ==
    hDone =>
        /\ \A k \in 1..2 :
              /\ hName[k] = Null => hOut[k] = Null
              /\ hName[k] # Null /\ Covered(hName[k], latin1Only) =>
                    /\ hOut[k] # Null
                    /\ DecodeHexPairs(hOut[k].s) = DescriptorText(hName[k].s, hContext)
        /\ hName[1] = hName[2] => hOut[1] = hOut[2]
        /\ hName[1] # hName[2] /\ Covered(hName[1], latin1Only) /\ Covered(hName[2], latin1Only)
              => hOut[1] # hOut[2]

-----------------------------------------------------------------------------
(* Specification of the classifier: one call on an arbitrary project *)

\* the projects handed to the classifier: any path string, or no path
ClassifierProjects ==
    {[path |-> Str(s)] : s \in SeqUpTo(PathChars, MaxPathLen)} \cup {[path |-> Null]}

ClassifyInit ==
    /\ HexIdle
    /\ OpenIdle
    /\ StoreIdle
    /\ wslAnchored \in BOOLEAN
    /\ HostIdle
    /\ cProject \in ClassifierProjects
    /\ cBefore = cProject
    /\ cResult = "pending"
    /\ cDone = FALSE

\* getRemoteType(project): the result is returned, nothing is written
Classify ==
    /\ ~cDone
    /\ cResult' = getRemoteType(cProject)
    /\ cDone' = TRUE
    /\ UNCHANGED <<wslAnchored, hostVars, cProject, cBefore, hexVars, openVars, storeVars>>

ClassifyNext == Classify

SpecClassify == ClassifyInit /\ [][ClassifyNext]_vars

-----------------------------------------------------------------------------
(* The checks of the classifier, stated on the classified path *)

HasPath == cProject.path.t = "str"

SshCheck == HasPath /\ startsWith(cProject.path.s, SSH_REMOTE_PREFIX)

WslRegexCheck == HasPath /\ matchWSL(cProject.path.s)

WslUrlCheck == HasPath /\ startsWith(cProject.path.s, VSCODE_REMOTE_WSL)

ContainerCheck == HasPath /\ startsWith(cProject.path.s, DEV_CONTAINER_PREFIX)

\* C1 (as stated): SSH for the SSH prefix, WSL for the WSL pattern, CONTAINER
\* for the container prefix, None for every other string
C1_Original ==
    cDone =>
        /\ SshCheck => cResult = "SSH"
        /\ WslRegexCheck => cResult = "WSL"
        /\ ContainerCheck => cResult = "CONTAINER"
        /\ ~(SshCheck \/ WslRegexCheck \/ ContainerCheck) => cResult = "None"

\* C1 (amended): SSH when the path starts with the SSH prefix; otherwise WSL
\* when it matches the WSL pattern or starts with 'vscode-remote://wsl+';
\* otherwise CONTAINER when it starts with the container prefix; None for
\* every other string
C1_Classifier ==
    cDone =>
        /\ SshCheck => cResult = "SSH"
        /\ ~SshCheck /\ (WslRegexCheck \/ WslUrlCheck) => cResult = "WSL"
        /\ ~SshCheck /\ ~WslRegexCheck /\ ~WslUrlCheck /\ ContainerCheck
              => cResult = "CONTAINER"
        /\ ~(SshCheck \/ WslRegexCheck \/ WslUrlCheck \/ ContainerCheck)
              => cResult = "None"

\* a 'vscode-remote://wsl+' path that the WSL pattern does not match was classified
C1_Witness ==
    /\ cDone
    /\ WslUrlCheck
    /\ ~WslRegexCheck
    /\ cResult = "WSL"

\* C2: getRemoteType is total and pure: it returns one of the four remote
\* types for every project, None for an empty or absent path, raises no
\* error and leaves the project as it was
C2_TotalPure ==
    cDone =>
        /\ cResult \in ProjectRemoteType
        /\ ~Truthy(cProject.path) => cResult = "None"
        /\ cProject = cBefore

\* a project without a path was classified
C2_Witness ==
    /\ cDone
    /\ cProject.path = Null
    /\ cResult = "None"

\* C3: the checks are applied in the order SSH, WSL, CONTAINER: a path that
\* satisfies more than one check gets the type of the first check that holds
C3_Priority ==
    cDone =>
        /\ SshCheck /\ (WslRegexCheck \/ WslUrlCheck \/ ContainerCheck)
              => cResult = "SSH"
        /\ ~SshCheck /\ (WslRegexCheck \/ WslUrlCheck) /\ ContainerCheck
              => cResult = "WSL"

\* a path with the SSH prefix that also matches the WSL pattern was classified
C3_Witness ==
    /\ cDone
    /\ SshCheck
    /\ WslRegexCheck
    /\ cResult = "SSH"

-----------------------------------------------------------------------------
(* models.ts: the Group and Project constructors.                          *)
(* An id is the number of the generateRandomId call that made it; 0 stands *)
(* for a missing id in a hand-written document.  isGitRepo and             *)
(* lastWorkspaceColor are display attributes and are left out.             *)

generateRandomId(counter) == counter

Group(groupName, counter) ==
    [id |-> generateRandomId(counter), groupName |-> groupName,
     collapsed |-> FALSE, projects |-> <<>>]

Project(name, path, counter) ==
    [id |-> generateRandomId(counter), name |-> name, path |-> path, color |-> Null]

\* Array.prototype.findIndex, 0 when nothing matches
findGroupIndex(gs, groupId) ==
    LET hits == {i \in DOMAIN gs : gs[i].id = groupId}
    IN  IF hits = {} THEN 0 ELSE CHOOSE i \in hits : \A j \in hits : i <= j

hasProject(group, projectId) ==
    \E k \in DOMAIN group.projects : group.projects[k].id = projectId

findProjectIndex(group, projectId) ==
    LET hits == {k \in DOMAIN group.projects : group.projects[k].id = projectId}
    IN  IF hits = {} THEN 0 ELSE CHOOSE k \in hits : \A j \in hits : k <= j

-----------------------------------------------------------------------------
(* services/projectService.ts: the operations the handlers call.  Every    *)
(* operation reads the persisted list, changes it and saves it at once.    *)

projectService_saveGroups(gs) == gs

projectService_addGroup(gs, groupName, counter) ==
    projectService_saveGroups(Append(gs, Group(groupName, counter)))

projectService_removeGroup(gs, groupId) ==
    projectService_saveGroups(SelectSeq(gs, LAMBDA g : g.id # groupId))

projectService_addProject(gs, project, groupId) ==
    LET i == findGroupIndex(gs, groupId)
    IN  IF i = 0 THEN gs
        ELSE projectService_saveGroups(
                 [gs EXCEPT ![i].projects = Append(@, project)])

projectService_getProjectAndGroup(gs, projectId) ==
    LET hits == {i \in DOMAIN gs : hasProject(gs[i], projectId)}
    IN  IF hits = {} THEN 0 ELSE CHOOSE i \in hits : \A j \in hits : i <= j

projectService_updateProject(gs, projectId, edited) ==
    LET i == projectService_getProjectAndGroup(gs, projectId)
    IN  IF i = 0 THEN gs
        ELSE LET k == findProjectIndex(gs[i], projectId)
             IN  projectService_saveGroups(
                     [gs EXCEPT ![i].projects[k] =
                         [id |-> projectId, name |-> edited.name, path |-> edited.path,
                          color |-> edited.color]])

-----------------------------------------------------------------------------
(* dashboard.ts: the prompts that yield a project path.  A prompt the user *)
(* dismisses throws USER_CANCELED; the operators return Null for it.       *)

getPathFromPicker(selectedProjectUris) ==
    IF selectedProjectUris = Null THEN Null
    ELSE Str(trim(selectedProjectUris.s))

getManualPath(manualPath) ==
    IF ~Truthy(manualPath) THEN Null
    ELSE Str(trim(manualPath.s))

getRemotePath(remotePath, remoteType) ==
    IF ~Truthy(remotePath) THEN Null
    ELSE Str(trim((IF remoteType = "SSH" THEN SSH_REMOTE_PREFIX
                   ELSE DEV_CONTAINER_PREFIX) \o remotePath.s))

queryProjectPath(pick) ==
    CASE pick.id = "dir"       -> getPathFromPicker(pick.input)
      [] pick.id = "file"      -> getPathFromPicker(pick.input)
      [] pick.id = "manual"    -> getManualPath(pick.input)
      [] pick.id = "ssh"       -> getRemotePath(pick.input, "SSH")
      [] pick.id = "container" -> getRemotePath(pick.input, "DEV CONTAINER")
      [] OTHER                 -> Null

-----------------------------------------------------------------------------
(* dashboard.ts: addGroup, addProject and editProject.  The answers the    *)
(* user gives to the prompts of one handler are one record of inputs.      *)

queryGroupFields(groupNameAnswer) == groupNameAnswer

\* how a handler ended: the list it left, the id counter, whether the user dismissed one of
\* its prompts, whether an exception left the handler, whether it showed an error message
\* and whether the user accepted a confirmation
Returned(gs, counter, outcome, dismissed) ==
    [groups |-> gs, counter |-> counter, outcome |-> outcome, dismissed |-> dismissed,
     thrown |-> FALSE, message |-> FALSE, confirmed |-> FALSE]

addGroup(gs, counter, groupNameAnswer) ==
    LET groupName == queryGroupFields(groupNameAnswer)
    IN  IF groupName = Null
        THEN Returned(gs, counter, "canceled", TRUE)
        ELSE Returned(projectService_addGroup(gs, groupName, counter), counter + 1,
                      "added", FALSE)

queryGroup(gs, counter, optionForAdding, answers) ==
    LET pick == IF optionForAdding /\ gs = <<>> THEN [k |-> "Add"] ELSE answers.group
        dismissed == [canceled |-> TRUE, groups |-> gs, counter |-> counter,
                      groupId |-> 0, newlyCreated |-> FALSE]
    IN  CASE pick.k = "dismissed" -> dismissed
          [] pick.k = "Add" ->
                IF answers.newGroupName = Null THEN dismissed
                ELSE [canceled |-> FALSE,
                      groups |-> projectService_addGroup(gs, answers.newGroupName, counter),
                      counter |-> counter + 1,
                      groupId |-> generateRandomId(counter),
                      newlyCreated |-> TRUE]
          [] OTHER ->
                [canceled |-> FALSE, groups |-> gs, counter |-> counter,
                 groupId |-> pick.id, newlyCreated |-> FALSE]

\* the error a dismissed prompt throws
USER_CANCELED == [t |-> "USER_CANCELED"]

USE_PROJECT_COLOR == TRUE

\* colorService.getRandomColor()
RandomColor == Str(<<"random">>)

\* (customColor || '').replace(/[;"]/g, '').trim()
customColorOf(input) ==
    IF ~Truthy(input) THEN Str(<<>>)
    ELSE Str(trim(SelectSeq(input.s, LAMBDA c : c \notin {";", "\""})))

\* the color one pick sets: Null when the pick sets none
colorOf(pick) ==
    CASE pick.id = "custom" -> customColorOf(pick.input)
      [] pick.id = "recent" -> pick.input
      [] pick.id = "random" -> RandomColor
      [] OTHER              -> Str(<<pick.id>>)

\* a custom color the user does not enter, a recent color the user does not pick
leftOpen(pick) == pick.id \in {"custom", "recent"} /\ ~Truthy(colorOf(pick))

\* the color prompts without the loop: what the first pick sets is returned
queryProjectColorOnce(picks) ==
    IF picks = <<>> THEN USER_CANCELED
    ELSE CASE Head(picks).id = "dismissed" -> USER_CANCELED
           [] Head(picks).id = "none"      -> Null
           [] Head(picks).id = "workspace" -> Str(<<"WORKSPACE">>)
           [] OTHER                        -> colorOf(Head(picks))

\* the color prompts: the pick of a color, shown again for as long as no color is set.  The
\* answers are the picks in turn; a custom color the user does not enter and a recent
\* color the user does not pick set no color, and a list of picks that sets none ends with
\* the pick dismissed.
RECURSIVE queryProjectColor(_)
queryProjectColor(picks) ==
    IF ~USE_PROJECT_COLOR THEN Null
    ELSE IF picks = <<>> THEN USER_CANCELED
    ELSE CASE Head(picks).id = "dismissed" -> USER_CANCELED
           [] Head(picks).id = "none"      -> Null
           [] Head(picks).id = "workspace" -> Str(<<"WORKSPACE">>)
           [] OTHER                        ->
                  IF Truthy(colorOf(Head(picks))) THEN colorOf(Head(picks))
                  ELSE queryProjectColor(Tail(picks))

\* the prompts of queryProjectFields without the catch block that removes the new group
queryProjectFieldsNoCleanup(gs, counter, groupId, isEditing, projectTemplate, answers) ==
    LET g == IF ~isEditing /\ groupId = 0
             THEN queryGroup(gs, counter, TRUE, answers)
             ELSE [canceled |-> FALSE, groups |-> gs, counter |-> counter,
                   groupId |-> groupId, newlyCreated |-> FALSE]
        cleanup == g.groups
        canceled == [canceled |-> TRUE, groups |-> cleanup, counter |-> g.counter,
                     project |-> Null, groupId |-> g.groupId, dismissed |-> TRUE]
        firstPath == IF isEditing THEN projectTemplate.path
                     ELSE queryProjectPath(answers.path)
        projectPath == IF isEditing /\ answers.updatePath = "edit"
                       THEN queryProjectPath(answers.path)
                       ELSE firstPath
    IN  IF g.canceled \/ firstPath = Null THEN canceled
        ELSE IF ~Truthy(answers.projectName) THEN canceled
        ELSE IF isEditing /\ answers.updatePath = "dismissed" THEN canceled
        ELSE IF projectPath = Null THEN canceled
        ELSE IF ~isEditing /\ queryProjectColor(answers.color) = USER_CANCELED THEN canceled
        ELSE [canceled |-> FALSE, groups |-> g.groups, counter |-> g.counter + 1,
              project |-> [Project(answers.projectName, projectPath, g.counter)
                              EXCEPT !.color = IF isEditing THEN projectTemplate.color
                                               ELSE queryProjectColor(answers.color)],
              groupId |-> g.groupId,
              dismissed |-> ~isEditing /\ USE_PROJECT_COLOR /\ leftOpen(Head(answers.color))]

queryProjectFields(gs, counter, groupId, isEditing, projectTemplate, answers) ==
    LET g == IF ~isEditing /\ groupId = 0
             THEN queryGroup(gs, counter, TRUE, answers)
             ELSE [canceled |-> FALSE, groups |-> gs, counter |-> counter,
                   groupId |-> groupId, newlyCreated |-> FALSE]
        \* the catch block: a group made for this project is removed again
        cleanup == IF g.newlyCreated
                   THEN projectService_removeGroup(g.groups, g.groupId)
                   ELSE g.groups
        canceled == [canceled |-> TRUE, groups |-> cleanup, counter |-> g.counter,
                     project |-> Null, groupId |-> g.groupId, dismissed |-> TRUE]
        firstPath == IF isEditing THEN projectTemplate.path
                     ELSE queryProjectPath(answers.path)
        projectPath == IF isEditing /\ answers.updatePath = "edit"
                       THEN queryProjectPath(answers.path)
                       ELSE firstPath
    IN  IF g.canceled \/ firstPath = Null THEN canceled
        ELSE IF ~Truthy(answers.projectName) THEN canceled
        ELSE IF isEditing /\ answers.updatePath = "dismissed" THEN canceled
        ELSE IF projectPath = Null THEN canceled
        ELSE IF ~isEditing /\ queryProjectColor(answers.color) = USER_CANCELED THEN canceled
        ELSE [canceled |-> FALSE, groups |-> g.groups, counter |-> g.counter + 1,
              project |-> [Project(answers.projectName, projectPath, g.counter)
                              EXCEPT !.color = IF isEditing THEN projectTemplate.color
                                               ELSE queryProjectColor(answers.color)],
              groupId |-> g.groupId,
              dismissed |-> ~isEditing /\ USE_PROJECT_COLOR /\ leftOpen(Head(answers.color))]

addProject(gs, counter, groupId, answers) ==
    LET q == queryProjectFields(gs, counter, groupId, FALSE, Null, answers)
    IN  IF q.canceled
        THEN Returned(q.groups, q.counter, "canceled", TRUE)
        ELSE Returned(projectService_addProject(q.groups, q.project, q.groupId), q.counter,
                      "added", q.dismissed)

\* the id the constructor gives the edited copy is dropped by updateProject,
\* which keeps the project's own id, so the counter stays
\* the try block of editProject: project and groupId are what the handler read from the
\* list before the first prompt, gs is the list when the prompts are answered
editProjectPrompted(gs, counter, projectId, groupId, project, answers) ==
    LET q == queryProjectFields(gs, counter, groupId, TRUE, project, answers)
    IN  IF q.canceled
        THEN Returned(q.groups, counter, "canceled", TRUE)
        ELSE Returned(projectService_updateProject(q.groups, projectId, q.project), counter,
                      "edited", q.dismissed)

editProject(gs, counter, projectId, answers) ==
    LET i == projectService_getProjectAndGroup(gs, projectId)
        project == gs[i].projects[findProjectIndex(gs[i], projectId)]
    IN  IF i = 0
        THEN Returned(gs, counter, "unknown", FALSE)
        ELSE editProjectPrompted(gs, counter, projectId, gs[i].id, project, answers)

-----------------------------------------------------------------------------
(* dashboard.ts: the handlers that change or remove one group or project,  *)
(* addProjectsFromFolder and openProjectInWindow                           *)

projectService_getGroup(gs, groupId) == findGroupIndex(gs, groupId)

projectService_updateGroup(gs, groupId, group) ==
    LET i == findGroupIndex(gs, groupId)
    IN  IF i = 0 THEN gs ELSE projectService_saveGroups([gs EXCEPT ![i] = group])

projectService_removeProject(gs, projectId) ==
    projectService_saveGroups(
        [i \in DOMAIN gs |->
            [gs[i] EXCEPT !.projects = SelectSeq(@, LAMBDA p : p.id # projectId)]])

editGroup(gs, counter, groupId, groupNameAnswer) ==
    LET i == projectService_getGroup(gs, groupId)
        groupName == queryGroupFields(groupNameAnswer)
    IN  IF i = 0 THEN Returned(gs, counter, "unknown", FALSE)
        ELSE IF groupName = Null THEN Returned(gs, counter, "canceled", TRUE)
        ELSE Returned(projectService_updateGroup(gs, groupId,
                          [gs[i] EXCEPT !.groupName = groupName]),
                      counter, "edited", FALSE)

editProjectColor(gs, counter, projectId, picks) ==
    LET i == projectService_getProjectAndGroup(gs, projectId)
        project == gs[i].projects[findProjectIndex(gs[i], projectId)]
        color == queryProjectColor(picks)
    IN  IF i = 0 THEN Returned(gs, counter, "unknown", FALSE)
        ELSE IF color = USER_CANCELED THEN Returned(gs, counter, "canceled", TRUE)
        ELSE Returned(projectService_updateProject(gs, projectId,
                          [project EXCEPT !.color = color]),
                      counter, "edited", USE_PROJECT_COLOR /\ leftOpen(Head(picks)))

\* path.basename of a path without a trailing separator
basename(s) ==
    LET slashes == {n \in DOMAIN s : s[n] = "/"}
        last == IF slashes = {} THEN 0 ELSE CHOOSE n \in slashes : \A m \in slashes : m <= n
    IN  SubSeq(s, last + 1, Len(s))

\* the loop over the folders: one project for every folder, added to the new group
RECURSIVE addFolders(_, _, _, _)
addFolders(gs, counter, groupId, foldersInPath) ==
    IF foldersInPath = <<>> THEN [groups |-> gs, counter |-> counter]
    ELSE addFolders(
             projectService_addProject(gs,
                 [Project(Str(basename(Head(foldersInPath))), Str(Head(foldersInPath)), counter)
                     EXCEPT !.color = RandomColor],
                 groupId),
             counter + 1, groupId, Tail(foldersInPath))

addProjectsFromFolder(gs, counter, folderPath, foldersInPath) ==
    IF folderPath = Null THEN Returned(gs, counter, "canceled", TRUE)
    ELSE LET added == addFolders(
                          projectService_addGroup(gs, Str(basename(folderPath.s)), counter),
                          counter + 1, generateRandomId(counter), foldersInPath)
         IN  Returned(added.groups, added.counter, "added", FALSE)

removeGroup(gs, counter, groupId, accepted) ==
    IF projectService_getGroup(gs, groupId) = 0 THEN Returned(gs, counter, "unknown", FALSE)
    ELSE IF ~accepted THEN Returned(gs, counter, "declined", TRUE)
    ELSE [Returned(projectService_removeGroup(gs, groupId), counter, "removed", FALSE)
             EXCEPT !.confirmed = TRUE]

\* queryGroup() is awaited outside of any try block
removeGroupPerCommand(gs, counter, answers) ==
    LET q == queryGroup(gs, counter, FALSE, answers)
    IN  IF q.canceled
        THEN [Returned(gs, counter, "USER_CANCELED", TRUE) EXCEPT !.thrown = TRUE]
        ELSE removeGroup(gs, counter, q.groupId, answers.accepted)

removeProject(gs, counter, projectId, accepted) ==
    IF projectService_getProjectAndGroup(gs, projectId) = 0
    THEN Returned(gs, counter, "unknown", FALSE)
    ELSE IF ~accepted THEN Returned(gs, counter, "declined", TRUE)
    ELSE [Returned(projectService_removeProject(gs, projectId), counter, "removed", FALSE)
             EXCEPT !.confirmed = TRUE]

removeProjectPerCommand(gs, counter, selectedProjectPick) ==
    IF selectedProjectPick = 0 THEN Returned(gs, counter, "canceled", TRUE)
    ELSE Returned(projectService_removeProject(gs, selectedProjectPick), counter,
                  "removed", FALSE)

\* the pick of the project; what opening does is the subject of openProject
openProjectInWindow(gs, counter, selectedProjectPick) ==
    IF selectedProjectPick = 0 THEN Returned(gs, counter, "canceled", TRUE)
    ELSE Returned(gs, counter, "opened", FALSE)

-----------------------------------------------------------------------------
(* dashboard.ts: reorderGroups.  groups.find hands out the group object    *)
(* itself, so two entries of groupOrders naming one group write to one     *)
(* object: objects holds the groups read from the store, made holds the    *)
(* groups the call creates, and reorderedGroups refers to either.          *)

\* projectMap: the last project read with an id is the one the id maps to
projectMapGet(gs, pid) ==
    LET all == UNION {{<<i, k>> : k \in {n \in DOMAIN gs[i].projects :
                                             gs[i].projects[n].id = pid}} :
                      i \in DOMAIN gs}
    IN  IF all = {} THEN Null
        ELSE LET last == CHOOSE x \in all :
                     \A y \in all : y[1] < x[1] \/ (y[1] = x[1] /\ y[2] <= x[2])
             IN  gs[last[1]].projects[last[2]]

RECURSIVE mapProjects(_, _)
mapProjects(gs, projectIds) ==
    IF projectIds = <<>> THEN <<>>
    ELSE LET p == projectMapGet(gs, Head(projectIds))
         IN  (IF p = Null THEN <<>> ELSE <<p>>) \o mapProjects(gs, Tail(projectIds))

RECURSIVE reorderLoop(_, _, _)
reorderLoop(gs, groupOrders, st) ==
    IF groupOrders = <<>> THEN st
    ELSE LET entry == Head(groupOrders)
             i == findGroupIndex(gs, entry.groupId)
             projects == mapProjects(gs, entry.projectIds)
         IN  reorderLoop(gs, Tail(groupOrders),
                 IF i # 0
                 THEN [st EXCEPT !.objects[i].projects = projects,
                                 !.reorderedGroups = Append(@, [k |-> "read", i |-> i])]
                 ELSE [st EXCEPT
                         !.made = Append(@, [Group(Str(<<"Group #", ToString(Len(st.reorderedGroups) + 1)>>),
                                                     st.counter)
                                               EXCEPT !.projects = projects]),
                         !.counter = @ + 1,
                         !.reorderedGroups =
                             Append(@, [k |-> "made", i |-> Len(st.made) + 1])])

\* a reordering that keeps the groups no entry names, after the groups of the entries
reorderGroupsKeepingRest(gs, counter, groupOrders) ==
    IF groupOrders = Null
    THEN [groups |-> gs, counter |-> counter, outcome |-> "invalid argument"]
    ELSE LET st == reorderLoop(gs, groupOrders.a,
                       [objects |-> gs, made |-> <<>>, counter |-> counter,
                        reorderedGroups |-> <<>>])
             saved == [n \in DOMAIN st.reorderedGroups |->
                          IF st.reorderedGroups[n].k = "read"
                          THEN st.objects[st.reorderedGroups[n].i]
                          ELSE st.made[st.reorderedGroups[n].i]]
             rest == SelectSeq(gs, LAMBDA g :
                         \A n \in DOMAIN groupOrders.a : groupOrders.a[n].groupId # g.id)
         IN  [groups |-> projectService_saveGroups(saved \o rest),
              counter |-> st.counter, outcome |-> "reordered"]

reorderGroups(gs, counter, groupOrders) ==
    IF groupOrders = Null
    THEN [groups |-> gs, counter |-> counter, outcome |-> "invalid argument"]
    ELSE LET st == reorderLoop(gs, groupOrders.a,
                       [objects |-> gs, made |-> <<>>, counter |-> counter,
                        reorderedGroups |-> <<>>])
             saved == [n \in DOMAIN st.reorderedGroups |->
                          IF st.reorderedGroups[n].k = "read"
                          THEN st.objects[st.reorderedGroups[n].i]
                          ELSE st.made[st.reorderedGroups[n].i]]
         IN  [groups |-> projectService_saveGroups(saved),
              counter |-> st.counter, outcome |-> "reordered"]

-----------------------------------------------------------------------------
(* dashboard.ts: editProjectsManuallyPerCommand, the handler that runs     *)
(* when the edited document is saved.  A document is the text's parse:     *)
(* unparseable text, a value that is no array, or an array whose entries   *)
(* are null or group objects; a field a group or project object lacks is   *)
(* Null (a string or list) or 0 (an id).                                   *)

Unparseable == [t |-> "unparseable"]
EmptyText == [t |-> "empty"]
NumberValue == [t |-> "number"]

\* a value that is no object and is falsy: 0, false or ''
ZeroValue == [t |-> "zero"]

\* JSON.parse(e.document.getText() || '[]')
parseDocument(doc) == IF doc = EmptyText THEN Arr(<<>>) ELSE doc

\* JSON.stringify(projects, null, 4), read back by JSON.parse
exportGroups(gs) ==
    Arr([i \in DOMAIN gs |->
            [id |-> gs[i].id, groupName |-> gs[i].groupName, name |-> Null,
             collapsed |-> gs[i].collapsed, projects |-> Arr(gs[i].projects)]])

\* group.groupName = group.name; delete group.name
renameLegacyGroup(group) ==
    IF Truthy(group.name) /\ ~Truthy(group.groupName)
    THEN [group EXCEPT !.groupName = group.name, !.name = Null]
    ELSE group

emptyUnnamedGroup(group) ==
    /\ group.groupName = Null
    /\ \/ group.projects = Null
       \/ group.projects.t # "arr"
       \/ group.projects.a = <<>>

invalidGroup(group) ==
    \/ group.id = 0
    \/ group.groupName = Null
    \/ group.projects = Null
    \/ group.projects.t # "arr"

invalidProject(project) ==
    \/ project = Null
    \/ project = ZeroValue
    \/ project = NumberValue
    \/ project.id = 0
    \/ ~Truthy(project.name)
    \/ ~Truthy(project.path)

\* the validation loop: st.kept collects the groups not marked _delete
RECURSIVE validateGroups(_, _)
validateGroups(entries, st) ==
    IF entries = <<>> THEN st
    ELSE IF Head(entries) = Null THEN [st EXCEPT !.thrown = "TypeError"]
    ELSE IF Head(entries) = ZeroValue THEN [st EXCEPT !.jsonIsInvalid = TRUE]
    ELSE IF Head(entries) = NumberValue THEN [st EXCEPT !.thrown = "TypeError"]
    ELSE LET group == renameLegacyGroup(Head(entries))
         IN  IF emptyUnnamedGroup(group)
             THEN validateGroups(Tail(entries), st)
             ELSE IF invalidGroup(group)
             THEN [st EXCEPT !.jsonIsInvalid = TRUE]
             ELSE validateGroups(Tail(entries),
                      [st EXCEPT
                          !.jsonIsInvalid =
                              @ \/ \E k \in DOMAIN group.projects.a :
                                       invalidProject(group.projects.a[k]),
                          !.kept = Append(@, [id |-> group.id,
                                              groupName |-> group.groupName,
                                              collapsed |-> group.collapsed,
                                              projects |-> group.projects.a])])

onWillSaveTextDocument(gs, doc) ==
    IF doc = Unparseable
    THEN [groups |-> gs, outcome |-> "can not be parsed"]
    ELSE LET updatedGroups == parseDocument(doc)
             st == validateGroups(updatedGroups.a,
                       [jsonIsInvalid |-> FALSE, thrown |-> "no", kept |-> <<>>])
         IN  IF updatedGroups.t # "arr"
             THEN [groups |-> gs, outcome |-> "does not meet the Schema"]
             ELSE IF st.thrown # "no"
             THEN [groups |-> gs, outcome |-> st.thrown]
             ELSE IF st.jsonIsInvalid
             THEN [groups |-> gs, outcome |-> "does not meet the Schema"]
             ELSE [groups |-> projectService_saveGroups(st.kept), outcome |-> "saved"]

-----------------------------------------------------------------------------
(* Specification of the store: one call of a handler on the persisted list *)
(* as an earlier session left it                                           *)

GroupIds(gs) == {gs[i].id : i \in DOMAIN gs}

ProjectIds(gs) == UNION {{gs[i].projects[k].id : k \in DOMAIN gs[i].projects} : i \in DOMAIN gs}

GroupNames == {Str(<<"a">>)}

\* the names of the projects of a saved list
StoredNames == {Str(<<"a">>)}

\* the names the user types into the name prompt or into the document
ProjectNames == StoredNames \cup {Str(<<"<", "b", ">">>)}

\* what the user answers to the prompts of queryProjectPath
PathPicks ==
    {[id |-> "dismissed", input |-> Null]}
        \cup [id : {"dir"}, input : {Null, Str(<<"/", "a">>)}]
        \cup [id : {"file"}, input : {Str(<<"/", "a">>)}]
        \cup [id : {"manual"}, input : {Null, Str(<<" ">>), Str(<<"/", "a", " ">>)}]
        \cup [id : {"ssh", "container"}, input : {Str(<<"a">>)}]

GroupPicks(gs) ==
    {[k |-> "dismissed"], [k |-> "Add"]} \cup {[k |-> "group", id |-> g] : g \in GroupIds(gs)}

\* what the user answers to the color prompts: one pick, or a custom or recent color left
\* open and then one more pick
FirstColorPicks ==
    {[id |-> "dismissed", input |-> Null], [id |-> "none", input |-> Null],
     [id |-> "crimson", input |-> Null], [id |-> "custom", input |-> Str(<<"gold">>)]}

ColorPicks ==
    {<<p>> : p \in FirstColorPicks}
        \cup {<<[id |-> i, input |-> Null], p>> :
                  <<i, p>> \in {"custom", "recent"} \X
                               {[id |-> "dismissed", input |-> Null],
                                [id |-> "crimson", input |-> Null]}}

AddProjectAnswers(gs) ==
    [group : GroupPicks(gs), newGroupName : {Null} \cup GroupNames, path : PathPicks,
     projectName : {Null} \cup ProjectNames, color : ColorPicks]

EditProjectAnswers ==
    [projectName : {Null} \cup ProjectNames, updatePath : {"dismissed", "keep", "edit"},
     path : PathPicks]

\* the groupOrders arguments: entries naming groups and projects of the list, or unknown ones
OrderEntries(gs) ==
    [groupId : GroupIds(gs) \cup {0},
     projectIds : SeqUpTo(ProjectIds(gs) \cup {0}, MaxOrderIds)]

GroupOrders(gs) ==
    {Null} \cup {Arr(o) : o \in SeqUpTo(OrderEntries(gs), MaxOrders)}

\* what the user may write into a project entry of the document
DocumentProjects ==
    {Null} \cup [id : {0, MaxIds + 1}, name : {Null} \cup ProjectNames,
                 path : {Null, Str(<<>>), Str(<<"/", "a">>)}, color : {Null}]

\* what the user may write as a group of the document
DocumentGroups ==
    [id : {0, MaxIds + 1}, groupName : {Null} \cup GroupNames, name : {Null} \cup GroupNames,
     collapsed : {FALSE},
     projects : {Null, NumberValue, Arr(<<>>)} \cup {Arr(<<p>>) : p \in DocumentProjects}]

\* the project entries of the exported list
ExportedProjects(gs) ==
    UNION {{gs[i].projects[k] : k \in DOMAIN gs[i].projects} : i \in DOMAIN gs}

\* the documents the user may save: the exported list, as it is, or with the projects of
\* its first group replaced by one entry, or with a copy of a project added to its first
\* group, or with a field taken from its first group, or a document written by hand
ManualDocuments(gs) ==
    LET exported == exportGroups(gs).a
    IN  {Unparseable, EmptyText, NumberValue, Arr(exported), Arr(Append(exported, Null))}
            \cup {Arr(<<g>>) : g \in DocumentGroups}
            \cup (IF exported = <<>> THEN {}
                  ELSE {Arr([exported EXCEPT ![1].projects.a = Append(@, p)]) :
                                 p \in IF Len(exported[1].projects.a) < MaxOrderIds
                                        THEN ExportedProjects(gs) ELSE {}}
                       \cup {Arr([exported EXCEPT ![1].groupName = Null]),
                             Arr([exported EXCEPT ![1].id = 0]),
                             Arr([exported EXCEPT ![1].projects = Null])})

\* the project ids each entry of a groupOrders argument supplies, without the ids
\* no project of the list has
suppliedIds(gs, groupOrders) ==
    IF groupOrders = Null THEN <<>>
    ELSE [n \in DOMAIN groupOrders.a |->
             SelectSeq(groupOrders.a[n].projectIds, LAMBDA pid : pid \in ProjectIds(gs))]

\* the group id each entry of a groupOrders argument supplies
suppliedGroupIds(groupOrders) ==
    IF groupOrders = Null THEN <<>>
    ELSE [n \in DOMAIN groupOrders.a |-> groupOrders.a[n].groupId]

\* the lists an earlier session may have saved: every id is its own, every project has a
\* name and a path; the first group of a list may be the unnamed default group
StoredPaths == {Str(<<"/", "a">>), Str(SSH_REMOTE_PREFIX \o <<"a">>)}

EntityIds(gs) == GroupIds(gs) \cup ProjectIds(gs)

RECURSIVE StoredProjectLists(_, _)
StoredProjectLists(ids, n) ==
    IF n = 0 THEN {<<>>}
    ELSE LET shorter == StoredProjectLists(ids, n - 1)
         IN  shorter \cup
             {Append(ps, [id |-> i, name |-> nm, path |-> pa, color |-> Null]) :
                 <<ps, i, nm, pa>> \in
                     {x \in shorter \X ids \X StoredNames \X StoredPaths :
                         /\ Len(x[1]) = n - 1
                         /\ \A k \in DOMAIN x[1] : x[1][k].id # x[2]}}

StoredGroups(ids, names) ==
    UNION {{[id |-> i, groupName |-> nm, collapsed |-> FALSE, projects |-> ps] :
               nm \in names, ps \in StoredProjectLists(ids \ {i}, MaxOrderIds)} : i \in ids}

RECURSIVE PersistedLists(_)
PersistedLists(n) ==
    IF n = 0 THEN {<<>>}
    ELSE LET shorter == PersistedLists(n - 1)
         IN  shorter \cup
             UNION {{Append(gs, g) :
                        g \in StoredGroups((1..MaxIds) \ EntityIds(gs),
                                            IF gs = <<>> THEN {Null} \cup GroupNames
                                            ELSE GroupNames)} :
                    gs \in {l \in shorter : Len(l) = n - 1}}

StoreInit ==
    /\ wslAnchored = TRUE
    /\ HostIdle
    /\ ClassifyIdle
    /\ HexIdle
    /\ OpenIdle
    /\ groups \in PersistedLists(MaxOrders)
    /\ nextId = MaxIds + 1
    /\ sLast = [op |-> "none"]
    /\ pending = [op |-> "none"]

\* what is kept of a handler that ran: r is how it ended, before the list it started on
Ended(op, r, before) ==
    [op |-> op, outcome |-> r.outcome, before |-> before, dismissed |-> r.dismissed,
     thrown |-> r.thrown, message |-> r.message, confirmed |-> r.confirmed]

AddGroup ==
    /\ sLast.op = "none"
    /\ \E groupNameAnswer \in {Null} \cup GroupNames :
           LET r == addGroup(groups, nextId, groupNameAnswer)
           IN  /\ groups' = r.groups
               /\ nextId' = r.counter
               /\ sLast' = Ended("addGroup", r, groups)
    /\ UNCHANGED <<wslAnchored, hostVars, clsVars, hexVars, openVars, pending>>

AddProject ==
    /\ sLast.op = "none"
    /\ \E groupId \in GroupIds(groups) \cup {0}, answers \in AddProjectAnswers(groups) :
           LET r == addProject(groups, nextId, groupId, answers)
           IN  /\ groups' = r.groups
               /\ nextId' = r.counter
               /\ sLast' = Ended("addProject", r, groups)
    /\ UNCHANGED <<wslAnchored, hostVars, clsVars, hexVars, openVars, pending>>

EditProject ==
    /\ sLast.op = "none"
    /\ \E projectId \in ProjectIds(groups) \cup {0}, answers \in EditProjectAnswers :
           LET r == editProject(groups, nextId, projectId, answers)
           IN  /\ groups' = r.groups
               /\ nextId' = r.counter
               /\ sLast' = Ended("editProject", r, groups)
    /\ UNCHANGED <<wslAnchored, hostVars, clsVars, hexVars, openVars, pending>>

ReorderGroups ==
    /\ sLast.op = "none"
    /\ \E groupOrders \in GroupOrders(groups) :
           LET r == reorderGroups(groups, nextId, groupOrders)
           IN  /\ groups' = r.groups
               /\ nextId' = r.counter
               /\ sLast' = [op |-> "reorderGroups", outcome |-> r.outcome,
                            supplied |-> suppliedIds(groups, groupOrders),
                            entries |-> suppliedGroupIds(groupOrders),
                            before |-> groups]
    /\ UNCHANGED <<wslAnchored, hostVars, clsVars, hexVars, openVars, pending>>

EditProjectsManually ==
    /\ sLast.op = "none"
    /\ \E doc \in ManualDocuments(groups) :
           LET r == onWillSaveTextDocument(groups, doc)
           IN  /\ groups' = r.groups
               /\ sLast' = [op |-> "editProjectsManually", outcome |-> r.outcome]
    /\ UNCHANGED <<wslAnchored, hostVars, clsVars, hexVars, openVars, nextId, pending>>

\* what the user answers to the folder dialog of addProjectsFromFolder, and the folders
\* the chosen folder holds
FolderPicks == {Null, Str(<<"/", "a">>)}

FoldersInPath == {<<>>, <<<<"/", "a", "/", "b">>>>}

EditGroup ==
    /\ sLast.op = "none"
    /\ \E groupId \in GroupIds(groups) \cup {0}, groupNameAnswer \in {Null} \cup GroupNames :
           LET r == editGroup(groups, nextId, groupId, groupNameAnswer)
           IN  /\ groups' = r.groups
               /\ nextId' = r.counter
               /\ sLast' = Ended("editGroup", r, groups)
    /\ UNCHANGED <<wslAnchored, hostVars, clsVars, hexVars, openVars, pending>>

EditProjectColor ==
    /\ sLast.op = "none"
    /\ \E projectId \in ProjectIds(groups) \cup {0}, picks \in ColorPicks :
           LET r == editProjectColor(groups, nextId, projectId, picks)
           IN  /\ groups' = r.groups
               /\ nextId' = r.counter
               /\ sLast' = Ended("editProjectColor", r, groups)
    /\ UNCHANGED <<wslAnchored, hostVars, clsVars, hexVars, openVars, pending>>

AddProjectsFromFolder ==
    /\ sLast.op = "none"
    /\ \E folderPath \in FolderPicks, foldersInPath \in FoldersInPath :
           LET r == addProjectsFromFolder(groups, nextId, folderPath, foldersInPath)
           IN  /\ groups' = r.groups
               /\ nextId' = r.counter
               /\ sLast' = Ended("addProjectsFromFolder", r, groups)
    /\ UNCHANGED <<wslAnchored, hostVars, clsVars, hexVars, openVars, pending>>

RemoveGroup ==
    /\ sLast.op = "none"
    /\ \E groupId \in GroupIds(groups) \cup {0}, accepted \in BOOLEAN :
           LET r == removeGroup(groups, nextId, groupId, accepted)
           IN  /\ groups' = r.groups
               /\ nextId' = r.counter
               /\ sLast' = Ended("removeGroup", r, groups)
    /\ UNCHANGED <<wslAnchored, hostVars, clsVars, hexVars, openVars, pending>>

RemoveGroupPerCommand ==
    /\ sLast.op = "none"
    /\ \E answers \in [group : GroupPicks(groups) \ {[k |-> "Add"]}, accepted : BOOLEAN] :
           LET r == removeGroupPerCommand(groups, nextId, answers)
           IN  /\ groups' = r.groups
               /\ nextId' = r.counter
               /\ sLast' = Ended("removeGroupPerCommand", r, groups)
    /\ UNCHANGED <<wslAnchored, hostVars, clsVars, hexVars, openVars, pending>>

RemoveProject ==
    /\ sLast.op = "none"
    /\ \E projectId \in ProjectIds(groups) \cup {0}, accepted \in BOOLEAN :
           LET r == removeProject(groups, nextId, projectId, accepted)
           IN  /\ groups' = r.groups
               /\ nextId' = r.counter
               /\ sLast' = Ended("removeProject", r, groups)
    /\ UNCHANGED <<wslAnchored, hostVars, clsVars, hexVars, openVars, pending>>

RemoveProjectPerCommand ==
    /\ sLast.op = "none"
    /\ \E selectedProjectPick \in ProjectIds(groups) \cup {0} :
           LET r == removeProjectPerCommand(groups, nextId, selectedProjectPick)
           IN  /\ groups' = r.groups
               /\ nextId' = r.counter
               /\ sLast' = Ended("removeProjectPerCommand", r, groups)
    /\ UNCHANGED <<wslAnchored, hostVars, clsVars, hexVars, openVars, pending>>

OpenProjectInWindow ==
    /\ sLast.op = "none"
    /\ \E selectedProjectPick \in ProjectIds(groups) \cup {0} :
           LET r == openProjectInWindow(groups, nextId, selectedProjectPick)
           IN  /\ groups' = r.groups
               /\ nextId' = r.counter
               /\ sLast' = Ended("openProjectInWindow", r, groups)
    /\ UNCHANGED <<wslAnchored, hostVars, clsVars, hexVars, openVars, pending>>

StoreNext ==
    \/ AddGroup
    \/ AddProject
    \/ EditProject
    \/ ReorderGroups
    \/ EditProjectsManually
    \/ EditGroup
    \/ EditProjectColor
    \/ AddProjectsFromFolder
    \/ RemoveGroup
    \/ RemoveGroupPerCommand
    \/ RemoveProject
    \/ RemoveProjectPerCommand
    \/ OpenProjectInWindow

SpecStore == StoreInit /\ [][StoreNext]_vars

-----------------------------------------------------------------------------
(* Claims about the store *)

ProjectIdsOf(group) == [k \in DOMAIN group.projects |-> group.projects[k].id]

\* the positions of the projects of a list: <<group, project>>
ProjectPositions(gs) ==
    UNION {{<<i, k>> : k \in DOMAIN gs[i].projects} : i \in DOMAIN gs}

\* C8: after reorderGroups(groupOrders) the persisted list has one group for every supplied
\* pair, and the group's project list is the pair's projectIds in the supplied order,
\* without the ids that name no project of the original list.
C8_ReorderedAsSupplied ==
    (sLast.op = "reorderGroups" /\ sLast.outcome = "reordered") =>
        /\ Len(groups) = Len(sLast.supplied)
        /\ \A n \in DOMAIN groups : ProjectIdsOf(groups[n]) = sLast.supplied[n]

\* C9: after an add-project, add-group, edit, reorder or accepted manual edit, no two
\* projects of the persisted list have the same id.
C9_ProjectIdsUnique ==
    \A x, y \in ProjectPositions(groups) :
        groups[x[1]].projects[x[2]].id = groups[y[1]].projects[y[2]].id => x = y

\* C10: after an add-project, edit-project or accepted manual edit, every project of the
\* persisted list has a non-empty path.
C10_PathsNonEmpty ==
    sLast.op \in {"addProject", "editProject", "editProjectsManually"} =>
        \A x \in ProjectPositions(groups) : groups[x[1]].projects[x[2]].path # Str(<<>>)

-----------------------------------------------------------------------------
(* Specification of the manual edit: one save of the edited document, on   *)
(* the persisted list as an earlier session left it                        *)

\* what the user may write as the second entry of the document
SecondEntries ==
    {Null, ZeroValue, NumberValue,
     [id |-> MaxIds + 1, groupName |-> Str(<<"a">>), name |-> Null, collapsed |-> FALSE,
      projects |-> Arr(<<>>)],
     [id |-> 0, groupName |-> Str(<<"a">>), name |-> Null, collapsed |-> FALSE,
      projects |-> Arr(<<>>)]}

\* the documents the user may save: no JSON, no array, the exported list as it is, or an
\* array of one or two entries written by hand
EditedDocuments(gs) ==
    {Unparseable, EmptyText, NumberValue, exportGroups(gs)}
        \cup {Arr(<<e>>) : e \in {Null, ZeroValue, NumberValue} \cup DocumentGroups}
        \cup {Arr(<<g, e>>) : <<g, e>> \in DocumentGroups \X SecondEntries}

ManualEditInit ==
    /\ wslAnchored = TRUE
    /\ HostIdle
    /\ ClassifyIdle
    /\ HexIdle
    /\ OpenIdle
    /\ groups \in PersistedLists(MaxOrders)
    /\ nextId = MaxIds + 1
    /\ sLast = [op |-> "none"]
    /\ pending = [op |-> "none"]

SaveEditedDocument ==
    /\ sLast.op = "none"
    /\ \E doc \in EditedDocuments(groups) :
           LET r == onWillSaveTextDocument(groups, doc)
           IN  /\ groups' = r.groups
               /\ sLast' = [op |-> "saveEditedDocument", outcome |-> r.outcome,
                            doc |-> doc, before |-> groups]
    /\ UNCHANGED <<wslAnchored, hostVars, clsVars, hexVars, openVars, nextId, pending>>

ManualEditNext == SaveEditedDocument

SpecManualEdit == ManualEditInit /\ [][ManualEditNext]_vars

-----------------------------------------------------------------------------
(* Claims about the manual edit *)

Saved == sLast.op = "saveEditedDocument"

IsObject(entry) == entry \notin {Null, ZeroValue, NumberValue}

HasArray(group) == group.projects # Null /\ group.projects.t = "arr"

LacksField(project) ==
    \/ ~IsObject(project)
    \/ project.id = 0
    \/ ~Truthy(project.name)
    \/ ~Truthy(project.path)

\* the document is an array of group objects
ArrayOfGroups(doc) ==
    /\ doc.t = "arr"
    /\ \A n \in DOMAIN doc.a : IsObject(doc.a[n])

\* some group lacks an id or a projects array, or some project lacks an id, a name or a path
SomethingMissing(doc) ==
    \E n \in DOMAIN doc.a :
        \/ doc.a[n].id = 0
        \/ ~HasArray(doc.a[n])
        \/ \E k \in DOMAIN doc.a[n].projects.a : LacksField(doc.a[n].projects.a[k])

ErrorMessageShown == sLast.outcome \in {"can not be parsed", "does not meet the Schema"}

\* C11: the save handler rejects every document (an array of groups) in which some group
\* lacks an id or a projects array or some project lacks an id, a name or a path, and
\* accepts every other array of groups.
C11_RejectsExactlyTheMalformed ==
    (Saved /\ sLast.doc # Unparseable /\ ArrayOfGroups(parseDocument(sLast.doc))) =>
        (sLast.outcome = "saved" <=> ~SomethingMissing(parseDocument(sLast.doc)))

\* C12: for every saved document that is no JSON or that violates the schema (no array, an
\* entry that is no object, a group or project with a field missing) the handler shows an
\* error message and the persisted list stays as it was.
C12_RejectedWithMessage ==
    (Saved /\ (\/ sLast.doc = Unparseable
               \/ ~ArrayOfGroups(parseDocument(sLast.doc))
               \/ SomethingMissing(parseDocument(sLast.doc)))) =>
        (ErrorMessageShown /\ groups = sLast.before)

\* C17: exporting the persisted list and saving the document without any edit passes the
\* validation and persists a list equal to the list before.
C17_RoundTrip ==
    (Saved /\ sLast.doc = exportGroups(sLast.before)) =>
        (sLast.outcome = "saved" /\ groups = sLast.before)

-----------------------------------------------------------------------------
(* Claims about the command handlers *)

CancelHandlers ==
    {"addProject", "editProject", "editProjectColor", "addGroup", "editGroup",
     "addProjectsFromFolder"}

CommandHandlers ==
    CancelHandlers \cup {"removeGroup", "removeGroupPerCommand", "removeProject",
                         "removeProjectPerCommand", "openProjectInWindow"}

RemoveHandlers ==
    {"removeGroup", "removeGroupPerCommand", "removeProject", "removeProjectPerCommand"}

\* C14: when the user dismisses a prompt of a command handler, the handler ends by an
\* early return: no exception leaves it and it shows no error message.
C14_DismissalReturnsQuietly ==
    (sLast.op \in CommandHandlers /\ sLast.dismissed) =>
        /\ sLast.outcome \in {"canceled", "declined"}
        /\ ~sLast.thrown
        /\ ~sLast.message

\* C15: a remove handler takes a project or group from the persisted list only after the
\* user accepted its confirmation prompt, and leaves the list unchanged when the user
\* declines or dismisses the confirmation.
C15_RemovalConfirmed ==
    sLast.op \in RemoveHandlers =>
        /\ groups # sLast.before => sLast.confirmed
        /\ sLast.outcome = "declined" => groups = sLast.before

-----------------------------------------------------------------------------
(* Specification of a handler that waits for a prompt: editProject reads   *)
(* the project, asks for the name and the path in input boxes that stay    *)
(* open when the focus moves (ignoreFocusOut), and writes when they are    *)
(* answered; meanwhile the panel and the editor of the exported list       *)
(* deliver their own messages                                              *)

MaxInterleaved == 1

collapseGroup(gs, groupId) ==
    LET i == projectService_getGroup(gs, groupId)
    IN  IF i = 0
        THEN gs
        ELSE projectService_updateGroup(gs, groupId, [gs[i] EXCEPT !.collapsed = ~@])

\* the exported list with the path of one project rewritten by hand
MovedPath == Str(<<"/", "b">>)

MovedDocuments(gs) ==
    {Arr([i \in DOMAIN gs |->
            [exportGroups(gs).a[i] EXCEPT
                !.projects = Arr([k \in DOMAIN gs[i].projects |->
                                     IF gs[i].projects[k].id = projectId
                                     THEN [gs[i].projects[k] EXCEPT !.path = MovedPath]
                                     ELSE gs[i].projects[k]])]]) :
        projectId \in ProjectIds(gs)}

InterleaveInit ==
    /\ wslAnchored = TRUE
    /\ HostIdle
    /\ ClassifyIdle
    /\ HexIdle
    /\ OpenIdle
    /\ groups \in PersistedLists(MaxOrders)
    /\ nextId = MaxIds + 1
    /\ sLast = [op |-> "none"]
    /\ pending = [op |-> "none"]

\* editProject up to its first prompt: the project and its group are read from the list
BeginEditProject ==
    /\ sLast.op = "none"
    /\ pending.op = "none"
    /\ \E projectId \in ProjectIds(groups) :
           LET i == projectService_getProjectAndGroup(groups, projectId)
           IN  pending' = [op |-> "editProject", projectId |-> projectId,
                           groupId |-> groups[i].id,
                           project |-> groups[i].projects[findProjectIndex(groups[i], projectId)],
                           others |-> 0]
    /\ UNCHANGED <<wslAnchored, hostVars, clsVars, hexVars, openVars, groups, nextId, sLast>>

\* the panel's collapse-group message while the prompt is open
CollapseGroup ==
    /\ pending.op = "editProject"
    /\ pending.others < MaxInterleaved
    /\ \E groupId \in GroupIds(groups) :
           groups' = collapseGroup(groups, groupId)
    /\ pending' = [pending EXCEPT !.others = @ + 1]
    /\ UNCHANGED <<wslAnchored, hostVars, clsVars, hexVars, openVars, nextId, sLast>>

\* the exported list saved in its editor while the prompt is open
SaveMovedDocument ==
    /\ pending.op = "editProject"
    /\ pending.others < MaxInterleaved
    /\ \E doc \in MovedDocuments(groups) :
           groups' = onWillSaveTextDocument(groups, doc).groups
    /\ pending' = [pending EXCEPT !.others = @ + 1]
    /\ UNCHANGED <<wslAnchored, hostVars, clsVars, hexVars, openVars, nextId, sLast>>

\* the prompts are answered: editProject goes on with what it read before them
FinishEditProject ==
    /\ pending.op = "editProject"
    /\ \E answers \in EditProjectAnswers :
           LET r == editProjectPrompted(groups, nextId, pending.projectId, pending.groupId,
                                        pending.project, answers)
           IN  /\ groups' = r.groups
               /\ nextId' = r.counter
               /\ sLast' = [op |-> "editProject", outcome |-> r.outcome, before |-> groups,
                            projectId |-> pending.projectId,
                            updatePath |-> answers.updatePath, others |-> pending.others]
    /\ pending' = [op |-> "none"]
    /\ UNCHANGED <<wslAnchored, hostVars, clsVars, hexVars, openVars>>

InterleaveNext ==
    \/ BeginEditProject
    \/ CollapseGroup
    \/ SaveMovedDocument
    \/ FinishEditProject

SpecInterleave == InterleaveInit /\ [][InterleaveNext]_vars

-----------------------------------------------------------------------------
(* Claims about handlers that wait for a prompt *)

pathOf(gs, projectId) ==
    LET i == projectService_getProjectAndGroup(gs, projectId)
    IN  gs[i].projects[findProjectIndex(gs[i], projectId)].path

\* C16: between the read of a handler and its write no other handler reads or writes the
\* list, and the write overwrites nothing another handler persisted after the read: when
\* editProject has ended, no other handler ran while its prompts were open, and a path the
\* user kept is the path the list held when the prompts were answered
C16_NoLostUpdate ==
    sLast.op = "editProject" =>
        /\ sLast.others = 0
        /\ (sLast.outcome = "edited" /\ sLast.updatePath = "keep") =>
               pathOf(groups, sLast.projectId) = pathOf(sLast.before, sLast.projectId)

-----------------------------------------------------------------------------
(* dashboard.ts: checkDataMigration, run by startUp and by the listener on *)
(* the setting dashboard.storeProjectsInSettings; migrateDataIfNeeded is   *)
(* the project service's                                                   *)

MaxRuns == 3

MaxStored == 2

\* a backend holds data when it holds a list with at least one group
hasData(stored) == stored.t = "arr" /\ stored.a # <<>>

\* a migration that does not look at the target
migrateDataAlways(st) ==
    LET source == IF st.storeProjectsInSettings THEN st.globalState ELSE st.settings
        left == IF st.clearsSource THEN Null ELSE source
    IN  IF ~hasData(source)
        THEN [globalState |-> st.globalState, settings |-> st.settings, migrated |-> FALSE]
        ELSE IF st.storeProjectsInSettings
        THEN [globalState |-> left, settings |-> source, migrated |-> TRUE]
        ELSE [globalState |-> source, settings |-> left, migrated |-> TRUE]

\* projectService.migrateDataIfNeeded: the target is the backend the flag names; data is
\* copied only into a target that holds none; clearsSource tells whether the service empties
\* the backend it copied from
migrateDataIfNeeded(st) ==
    LET target == IF st.storeProjectsInSettings THEN st.settings ELSE st.globalState
        source == IF st.storeProjectsInSettings THEN st.globalState ELSE st.settings
        left == IF st.clearsSource THEN Null ELSE source
    IN  IF hasData(target) \/ ~hasData(source)
        THEN [globalState |-> st.globalState, settings |-> st.settings, migrated |-> FALSE]
        ELSE IF st.storeProjectsInSettings
        THEN [globalState |-> left, settings |-> source, migrated |-> TRUE]
        ELSE [globalState |-> source, settings |-> left, migrated |-> TRUE]

\* checkDataMigration: the state after the run, with what the run reported and how the
\* run before it ended
checkDataMigration(st, openDashboardAfterMigrate, flagChanged) ==
    LET r == migrateDataIfNeeded(st)
    IN  [st EXCEPT !.op = "checked",
                   !.globalState = r.globalState,
                   !.settings = r.settings,
                   !.runs = @ + 1,
                   !.migrated = r.migrated,
                   !.message = r.migrated,
                   !.dashboardShown = r.migrated /\ openDashboardAfterMigrate,
                   !.flagChanged = flagChanged,
                   !.before = <<st.globalState, st.settings>>,
                   !.migratedBefore = st.migrated]

\* what a backend holds: nothing, or a list of up to MaxStored groups
StoredContents ==
    {Null} \cup {Arr([k \in 1..n |-> Group(Str(<<"a">>), k)]) : n \in 0..MaxStored}

MigrationInit ==
    /\ wslAnchored = TRUE
    /\ ClassifyIdle
    /\ HexIdle
    /\ OpenIdle
    /\ StoreIdle
    /\ lookup = [op |-> "idle"]
    /\ window = [op |-> "idle"]
    /\ \E g \in StoredContents, s \in StoredContents, flag \in BOOLEAN, clears \in BOOLEAN :
           storage = [op |-> "none", globalState |-> g, settings |-> s,
                      storeProjectsInSettings |-> flag, clearsSource |-> clears,
                      runs |-> 0, migrated |-> FALSE, message |-> FALSE,
                      dashboardShown |-> FALSE, flagChanged |-> FALSE,
                      before |-> <<g, s>>, migratedBefore |-> FALSE]

\* startUp: await checkDataMigration()
StartUp ==
    /\ storage.runs = 0
    /\ storage' = checkDataMigration(storage, FALSE, FALSE)
    /\ UNCHANGED <<wslAnchored, clsVars, hexVars, openVars, storeVars, lookup, window>>

\* onDidChangeConfiguration: the event names dashboard.storeProjectsInSettings, whether the
\* stored value differs from the one before or not
ConfigurationChanged ==
    /\ storage.runs > 0
    /\ storage.runs < MaxRuns
    /\ \E flagChanged \in BOOLEAN :
           storage' = checkDataMigration(
                          [storage EXCEPT !.storeProjectsInSettings =
                                              IF flagChanged THEN ~@ ELSE @],
                          TRUE, flagChanged)
    /\ UNCHANGED <<wslAnchored, clsVars, hexVars, openVars, storeVars, lookup, window>>

MigrationNext ==
    \/ StartUp
    \/ ConfigurationChanged

SpecMigration == MigrationInit /\ [][MigrationNext]_vars

-----------------------------------------------------------------------------
(* Claims about the migration *)

-----------------------------------------------------------------------------
(* dashboard.ts: isFolderGitRepo; models.ts: Project.getWorkspaceColor.    *)
(* Both ask the file system, isFolderGitRepo also git; what these answer   *)
(* is the input of the lookup                                              *)

Undefined == [t |-> "undefined"]

\* lstatSync(fPath): it throws for a missing or unreadable path, else it tells a directory
\* from anything else (a file, or a link, which lstat does not follow)
LstatAnswers == {"ENOENT", "EACCES", "directory", "file", "link"}

\* execSync(`cd ... && git rev-parse --is-inside-work-tree`): it throws when the command
\* fails (cd into an unreadable folder, no repository around the folder, no git), else it
\* returns what git printed
GitTrue == Str(<<"t", "r", "u", "e", "\n">>)

GitFalse == Str(<<"f", "a", "l", "s", "e", "\n">>)

NotARepository == [t |-> "failed", why |-> "not a repository"]

NoGit == [t |-> "failed", why |-> "git not found"]

CdFailed == [t |-> "failed", why |-> "cd: permission denied"]

GitAnswers == {CdFailed, NotARepository, NoGit, GitTrue, GitFalse}

execSyncThrows(answer) == answer.t = "failed"

\* the function without its try and catch
isFolderGitRepoUncaught(lstat, gitHere, gitParent) ==
    LET test == IF lstat = "directory" THEN gitHere ELSE gitParent
    IN  IF lstat \in {"ENOENT", "EACCES"} \/ execSyncThrows(test)
        THEN [raised |-> TRUE, value |-> Undefined]
        ELSE [raised |-> FALSE, value |-> Truthy(test)]

\* gitHere is git's answer in the folder fPath, gitParent its answer in path.dirname(fPath)
isFolderGitRepo(lstat, gitHere, gitParent) ==
    LET test == IF lstat = "directory" THEN gitHere ELSE gitParent
    IN  IF lstat \in {"ENOENT", "EACCES"}
        THEN [raised |-> FALSE, value |-> FALSE]
        ELSE IF execSyncThrows(test)
        THEN [raised |-> FALSE, value |-> FALSE]
        ELSE [raised |-> FALSE, value |-> Truthy(test)]

\* .vscode/settings.json: absent, or what JSON.parse makes of its text once the comments
\* are cut out
Absent == [t |-> "absent"]

Colors == {Undefined, Str(<<>>), Str(<<"#", "f">>)}

ColorCustomizations ==
    {Undefined, Null, NumberValue}
        \cup [t : {"obj"}, titleBar : Colors, activityBar : Colors]

SettingsFiles ==
    {Absent, Unparseable, Null, NumberValue}
        \cup [t : {"obj"}, colorCustomizations : ColorCustomizations]

\* settings['workbench.colorCustomizations']: reading a property of null throws, a number
\* has no such property
settingsCustomizations(settings) ==
    IF settings.t = "obj" THEN settings.colorCustomizations ELSE Undefined

getWorkspaceColor(file) ==
    IF file \in {Absent, Unparseable}
    THEN [raised |-> FALSE, value |-> Null, logged |-> TRUE]
    ELSE IF file = Null
    THEN [raised |-> FALSE, value |-> Null, logged |-> TRUE]
    ELSE LET colorCustomizations == settingsCustomizations(file)
         IN  IF colorCustomizations \in {Undefined, Null}
             THEN [raised |-> FALSE, value |-> Null, logged |-> TRUE]
             ELSE IF colorCustomizations = NumberValue
             THEN [raised |-> FALSE, value |-> Undefined, logged |-> FALSE]
             ELSE [raised |-> FALSE,
                   value |-> IF Truthy(colorCustomizations.titleBar)
                             THEN colorCustomizations.titleBar
                             ELSE colorCustomizations.activityBar,
                   logged |-> FALSE]

LookupInit ==
    /\ wslAnchored = TRUE
    /\ ClassifyIdle
    /\ HexIdle
    /\ OpenIdle
    /\ StoreIdle
    /\ storage = [op |-> "idle"]
    /\ window = [op |-> "idle"]
    /\ lookup = [op |-> "none"]

IsFolderGitRepo ==
    /\ lookup.op = "none"
    /\ \E lstat \in LstatAnswers, gitHere \in GitAnswers, gitParent \in GitAnswers :
           LET r == isFolderGitRepo(lstat, gitHere, gitParent)
           IN  lookup' = [op |-> "isFolderGitRepo", lstat |-> lstat, gitHere |-> gitHere,
                          gitParent |-> gitParent, raised |-> r.raised, value |-> r.value]
    /\ UNCHANGED <<wslAnchored, clsVars, hexVars, openVars, storeVars, storage, window>>

GetWorkspaceColor ==
    /\ lookup.op = "none"
    /\ \E file \in SettingsFiles :
           LET r == getWorkspaceColor(file)
           IN  lookup' = [op |-> "getWorkspaceColor", file |-> file, raised |-> r.raised,
                          value |-> r.value, logged |-> r.logged]
    /\ UNCHANGED <<wslAnchored, clsVars, hexVars, openVars, storeVars, storage, window>>

LookupNext ==
    \/ IsFolderGitRepo
    \/ GetWorkspaceColor

SpecLookup == LookupInit /\ [][LookupNext]_vars

-----------------------------------------------------------------------------
(* Claims about the lookups *)

NoColor(value) == value \in {Null, Undefined, Str(<<>>)}

\* the settings file names a color for the title bar or for the activity bar
NamesColor(file) ==
    /\ file.t = "obj"
    /\ file.colorCustomizations.t = "obj"
    /\ \/ Truthy(file.colorCustomizations.titleBar)
       \/ Truthy(file.colorCustomizations.activityBar)

\* C19 as stated: for a path that is missing, unreadable, not a directory or not in a
\* repository isFolderGitRepo returns false, for a settings file that is absent, unparseable
\* or names no color getWorkspaceColor returns no color, and neither raises an error
C19_FailClosedEveryPath ==
    /\ lookup.op = "isFolderGitRepo" =>
           /\ ~lookup.raised
           /\ (\/ lookup.lstat # "directory"
               \/ execSyncThrows(lookup.gitHere)) => lookup.value = FALSE
    /\ lookup.op = "getWorkspaceColor" =>
           /\ ~lookup.raised
           /\ ~NamesColor(lookup.file) => NoColor(lookup.value)

\* C19: neither lookup raises an error; isFolderGitRepo returns false for a path that is
\* missing or unreadable and for one whose folder (the path when it is a directory, else the
\* folder that contains it) git does not answer for; getWorkspaceColor returns no color for
\* a settings file that is absent, unparseable or names no color
C19_FailClosed ==
    /\ lookup.op = "isFolderGitRepo" =>
           /\ ~lookup.raised
           /\ (\/ lookup.lstat \in {"ENOENT", "EACCES"}
               \/ lookup.lstat = "directory" /\ execSyncThrows(lookup.gitHere)
               \/ lookup.lstat # "directory" /\ execSyncThrows(lookup.gitParent))
                  => lookup.value = FALSE
    /\ lookup.op = "getWorkspaceColor" =>
           /\ ~lookup.raised
           /\ ~NamesColor(lookup.file) => NoColor(lookup.value)

\* a path that is not a directory, in a folder outside of every repository
C19_Witness ==
    /\ lookup.op = "isFolderGitRepo"
    /\ lookup.lstat = "file"
    /\ lookup.gitParent = NotARepository
    /\ lookup.value = FALSE
    /\ ~lookup.raised

-----------------------------------------------------------------------------
(* models.ts: sanitizeProjectName, and the claim about the stored names *)

\* the index of the first ">" of s at or after index i, 0 when there is none
RECURSIVE firstClosing(_, _)
firstClosing(s, i) ==
    IF i > Len(s) THEN 0
    ELSE IF s[i] = ">" THEN i
    ELSE firstClosing(s, i + 1)

\* name.replace(/<[^>]+>/g, ''): the leftmost "<" that is followed by one or more characters
\* other than ">" and a ">" is cut out with them, and the search goes on behind it
RECURSIVE stripTags(_)
stripTags(s) ==
    IF s = <<>> THEN <<>>
    ELSE LET j == firstClosing(s, 2)
         IN  IF Head(s) = "<" /\ j > 2
             THEN stripTags(SubSeq(s, j + 1, Len(s)))
             ELSE <<Head(s)>> \o stripTags(Tail(s))

sanitizeProjectName(name) ==
    IF ~Truthy(name) THEN Str(<<>>) ELSE Str(trim(stripTags(name.s)))

\* the name holds "<", one or more characters other than ">", and ">"
ContainsTag(name) ==
    /\ name.t = "str"
    /\ \E i \in 1..Len(name.s) :
           /\ name.s[i] = "<"
           /\ firstClosing(name.s, i + 1) > i + 1

\* C20: no project of the persisted list has a name that contains a tag
C20_NamesSanitized ==
    \A i \in DOMAIN groups : \A k \in DOMAIN groups[i].projects :
        ~ContainsTag(groups[i].projects[k].name)

-----------------------------------------------------------------------------
(* Claims about the routes of openProject *)

\* the remote type of the path that is dispatched: the stored path, trimmed
TrimmedType == getRemoteType([path |-> Str(OpenedPath)])

\* what is left of the opened path behind the prefix of its remote type, matched against the
\* expression of that type
RemoteMatch ==
    IF getRemoteType(oProject) = "SSH"
    THEN matchSSH(replace(OpenedPath, SSH_REMOTE_PREFIX, <<>>))
    ELSE matchCONTAINER(replace(OpenedPath, DEV_CONTAINER_PREFIX, <<>>))

NamesRemoteFolder == RemoteMatch # Null /\ RemoteMatch.groups.folder # Null

\* the string that is dispatched: for a container the name is replaced by its descriptor
DispatchedPath ==
    IF getRemoteType(oProject) = "CONTAINER" /\ RemoteMatch # Null
    THEN replace(OpenedPath,
                 DEV_CONTAINER_PREFIX \o RemoteMatch.groups.containername.s,
                 DEV_CONTAINER_PREFIX \o
                     getContainerHex(Str(CodeUnits(RemoteMatch.groups.containername.s)),
                                     DefaultContextName).s)
    ELSE OpenedPath

\* C21: an SSH or container project is dispatched by whether its path names a remote folder:
\* with a folder vscode.openFolder on the parsed URI, the new-window flag equal to
\* (mode = NewWindow); without one vscode.newWindow on the path without the scheme,
\* reuseWindow equal to (mode is not NewWindow)
C21_RemoteDispatch ==
    oPhase = "done" /\ getRemoteType(oProject) \in {"SSH", "CONTAINER"} =>
        commands =
            IF NamesRemoteFolder
            THEN <<openFolder(UriParse(DispatchedPath), oType = "NewWindow")>>
            ELSE <<newWindow(replace(DispatchedPath, <<VSCODE_REMOTE>>, <<>>),
                             oType # "NewWindow")>>

\* C22: a request to add to the workspace never invokes vscode.openFolder or
\* vscode.newWindow, whatever the remote type of the project
C22_AddNeverReplacesWindow ==
    oPhase = "done" /\ oType = "AddToWorkspace" => commands = <<>>

\* C23: the remote type that chooses the route is the remote type of the trimmed path that
\* is dispatched, and a path whose trimmed form is remote is never opened as a local file
C23_RoutesOnDispatchedPath ==
    oPhase = "done" =>
        /\ getRemoteType(oProject) = TrimmedType
        /\ \A i \in DOMAIN commands :
               TrimmedType # "None" /\ commands[i].command = "vscode.openFolder"
                   => commands[i].uri.from # "file"

\* C24: for a CONTAINER project whose path names no container openProject dispatches no host
\* command and returns without raising an error
C24_NoContainerReturnsQuietly ==
    oPhase = "done" /\ NamesNoContainer => commands = <<>> /\ oThrown = "none"

-----------------------------------------------------------------------------
(* dashboard.ts: the session of one window: activate and startUp, the      *)
(* dashboard panel, and addToWorkspace suspended at its await              *)

MaxStartUps == 2

MaxAdds == 2

MaxPanels == 2

StartupOptions == {"always", "never", "empty workspace"}

\* context.globalState.get(REOPEN_KEY): nothing stored yet, or a ReopenDashboardReason
ReopenValues == {"undefined", "None", "EditorReopenedAsWorkspace"}

\* a start-up that looks at the openOnStartup setting only
showDashboardByOptionOnly(reopenReason, openOnStartup, noOpenEditorsOrWorkspaces) ==
    IF openOnStartup = "always" THEN TRUE
    ELSE IF openOnStartup = "never" THEN FALSE
    ELSE noOpenEditorsOrWorkspaces

\* whether showDashboardOnOpenIfNeeded calls showDashboard
showDashboardOnOpenIfNeeded(reopenReason, openOnStartup, noOpenEditorsOrWorkspaces) ==
    IF reopenReason # "None" THEN TRUE
    ELSE IF openOnStartup = "always" THEN TRUE
    ELSE IF openOnStartup = "never" THEN FALSE
    ELSE noOpenEditorsOrWorkspaces

\* a showDashboard that creates a panel whatever instance is
showDashboardAlwaysCreates(inst, live) ==
    [instance |-> "panel", live |-> live + 1, created |-> TRUE]

\* showDashboard: inst is the instance variable, live the number of panels that were created
\* and not disposed
showDashboard(inst, live) ==
    IF inst # "null"
    THEN [instance |-> inst, live |-> live, created |-> FALSE]
    ELSE [instance |-> "panel", live |-> live + 1, created |-> TRUE]

\* the local projects of the panel: a folder, the same folder written with two separators,
\* another folder
AddedProjects ==
    {[path |-> Str(p)] : p \in {FolderRoot, <<"/", "/", "folder">>, <<"/", "other">>}}

\* what the file system answers about them: a folder, a file, a workspace file of two folders
AddedAnswers ==
    {fs \in FileSystemAnswers :
        \/ fs.pathType \in {"Folder", "File"}
        \/ fs.folderPaths # Null /\ fs.folderPaths.a # <<>> /\ fs.couldOpen}

WindowInit ==
    /\ wslAnchored = TRUE
    /\ ClassifyIdle
    /\ HexIdle
    /\ StoreIdle
    /\ storage = [op |-> "idle"]
    /\ lookup = [op |-> "idle"]
    /\ oProject = [path |-> Null]
    /\ oType = "Default"
    /\ workspace \in WorkspaceStates
    /\ prependWsl = FALSE
    /\ instance = "null"
    /\ reopenKey \in ReopenValues
    /\ commands = <<>>
    /\ messages = <<>>
    /\ oThrown = "none"
    /\ oPhase = "idle"
    /\ oBefore = <<workspace, reopenKey, instance>>
    /\ window = [op |-> "none", startUps |-> 0, live |-> 0, keySet |-> FALSE, adds |-> 0,
                 adding |-> [t |-> "none"], added |-> [t |-> "none"],
                 last |-> [t |-> "none"]]

\* activate in a window that was opened or reloaded: instance is null, startUp reads and
\* resets the reopen reason and shows the dashboard if needed
Activate ==
    /\ window.startUps < MaxStartUps
    /\ \E openOnStartup \in StartupOptions, noOpenEditorsOrWorkspaces \in BOOLEAN :
           LET reopenDashboardReason == reopenKey
               open == showDashboardOnOpenIfNeeded(reopenDashboardReason, openOnStartup,
                                                   noOpenEditorsOrWorkspaces)
               shown == IF open THEN showDashboard("null", 0)
                        ELSE [instance |-> "null", live |-> 0, created |-> FALSE]
           IN  /\ reopenKey' = "None"
               /\ instance' = shown.instance
               /\ window' = [window EXCEPT
                                !.op = "startUp",
                                !.startUps = @ + 1,
                                !.live = shown.live,
                                !.keySet = FALSE,
                                !.adding = [t |-> "none"],
                                !.last = [openOnStartup |-> openOnStartup,
                                          read |-> reopenDashboardReason,
                                          shown |-> open,
                                          byOption |-> showDashboardByOptionOnly(
                                                           reopenDashboardReason, openOnStartup,
                                                           noOpenEditorsOrWorkspaces),
                                          quiet |-> window.startUps > 0 /\ ~window.keySet]]
    /\ UNCHANGED <<wslAnchored, clsVars, hexVars, storeVars, storage, lookup, oProject, oType,
                   workspace, prependWsl, commands, messages, oThrown, oPhase, oBefore>>

\* the command dashboard.open
ShowDashboard ==
    /\ window.startUps > 0
    /\ window.live < MaxPanels
    /\ LET shown == showDashboard(instance, window.live)
       IN  /\ instance' = shown.instance
           /\ window' = [window EXCEPT !.op = "showDashboard", !.live = shown.live,
                                       !.last = [created |-> shown.created,
                                                 hadPanel |-> instance # "null"]]
    /\ UNCHANGED <<wslAnchored, clsVars, hexVars, storeVars, storage, lookup, oProject, oType,
                   workspace, prependWsl, reopenKey, commands, messages, oThrown, oPhase,
                   oBefore>>

\* the user closes a panel: onDidDispose sets instance to null
ClosePanel ==
    /\ window.live > 0
    /\ instance' = "null"
    /\ window' = [window EXCEPT !.op = "onDidDispose", !.live = @ - 1,
                                !.last = [t |-> "none"]]
    /\ UNCHANGED <<wslAnchored, clsVars, hexVars, storeVars, storage, lookup, oProject, oType,
                   workspace, prependWsl, reopenKey, commands, messages, oThrown, oPhase,
                   oBefore>>

\* the panel's message selected-project with AddToWorkspace: openProject runs into
\* addToWorkspace, which waits for fileService.getProjectPathType
BeginAddToWorkspace ==
    /\ window.startUps > 0
    /\ instance = "panel"
    /\ window.adding.t = "none"
    /\ window.adds < MaxAdds
    /\ \E project \in AddedProjects, fs \in AddedAnswers :
           window' = [window EXCEPT !.op = "selected-project",
                                    !.adding = [t |-> "suspended", project |-> project,
                                                fs |-> fs],
                                    !.last = [t |-> "none"]]
    /\ UNCHANGED <<wslAnchored, clsVars, hexVars, storeVars, storage, lookup, openVars>>

\* the file service has answered: addToWorkspace goes on from line 1062
FinishAddToWorkspace ==
    /\ window.adding.t = "suspended"
    /\ LET done == openProject(window.adding.project, "AddToWorkspace", workspace, prependWsl,
                               instance, window.adding.fs)
       IN  /\ workspace' = updateWorkspaceFolders(workspace, done.added)
           /\ reopenKey' = IF done.reopenKey = Null THEN reopenKey ELSE done.reopenKey.s
           /\ instance' = IF done.disposed THEN "null" ELSE instance
           /\ window' = [window EXCEPT
                            !.op = "addToWorkspace",
                            !.live = IF done.disposed THEN @ - 1 ELSE @,
                            !.adds = @ + 1,
                            !.keySet = @ \/ done.reopenKey # Null,
                            !.adding = [t |-> "none"],
                            !.added = [t |-> "add", project |-> window.adding.project,
                                       fs |-> window.adding.fs, grew |-> done.added # <<>>],
                            !.last = [project |-> window.adding.project,
                                      fs |-> window.adding.fs,
                                      thrown |-> done.thrown,
                                      grew |-> done.added # <<>>,
                                      before |-> <<workspace, reopenKey, instance>>,
                                      repeated |-> /\ window.added.t = "add"
                                                   /\ window.added.project = window.adding.project
                                                   /\ window.added.fs = window.adding.fs,
                                      grewBefore |-> window.added.t = "add" /\ window.added.grew]]
    /\ UNCHANGED <<wslAnchored, clsVars, hexVars, storeVars, storage, lookup, oProject, oType,
                   prependWsl, commands, messages, oThrown, oPhase, oBefore>>

WindowNext ==
    \/ Activate
    \/ ShowDashboard
    \/ ClosePanel
    \/ BeginAddToWorkspace
    \/ FinishAddToWorkspace

SpecWindow == WindowInit /\ [][WindowNext]_vars

-----------------------------------------------------------------------------
(* Claims about the window's session *)

C26_AtMostOnePanel ==
    /\ window.live <= 1
    /\ instance # "null" <=> window.live = 1
    /\ window.op = "showDashboard" => (window.last.created <=> ~window.last.hadPanel)

\* showDashboard on an existing panel: the panel is refreshed, none is created
C26_Witness ==
    /\ window.op = "showDashboard"
    /\ window.last.hadPanel
    /\ ~window.last.created
    /\ window.live = 1

\* C27: whenever addToWorkspace reaches instance.dispose(), instance refers to a live panel,
\* also when the user has closed the panel while the handler waited
C27_PanelLiveAtDispose ==
    window.op = "addToWorkspace" => window.last.thrown = "none"

\* the folders of the project of the last addToWorkspace
AddedFolders ==
    IF window.last.fs.pathType = "Folder"
    THEN <<trim(window.last.project.path.s)>>
    ELSE IF window.last.fs.folderPaths = Null THEN <<>>
    ELSE window.last.fs.folderPaths.a

WorkspaceFoldersBefore ==
    IF window.last.before[1].workspaceFolders = Null THEN <<>>
    ELSE window.last.before[1].workspaceFolders.a

AllInWorkspace ==
    \A i \in DOMAIN AddedFolders : \E k \in DOMAIN WorkspaceFoldersBefore :
        normalize(WorkspaceFoldersBefore[k]) = normalize(AddedFolders[i])

\* C30: when every folder of the project is a workspace folder already, addToWorkspace
\* updates no workspace folder, sets no reopen reason and leaves the panel open; a second
\* request for the same project leaves the workspace folders as the first left them
C30_AddIsIdempotent ==
    window.op = "addToWorkspace" =>
        /\ AllInWorkspace =>
               /\ <<workspace, reopenKey, instance>> = window.last.before
               /\ window.last.thrown = "none"
        /\ window.last.repeated => workspace = window.last.before[1]

\* the second request for a project whose folders the first request added
C30_Witness ==
    /\ window.op = "addToWorkspace"
    /\ window.last.repeated
    /\ window.last.grewBefore
    /\ ~window.last.grew
    /\ workspace = window.last.before[1]

-----------------------------------------------------------------------------
(* Specification of the color prompts: one call of queryProjectColor, the  *)
(* user's answers to its picks in turn                                     *)

MaxPicks == 3

\* what the user can answer to one showing of the color pick, with what is typed into the
\* custom color box or picked from the recent colors
ColorAnswers ==
    [id : {"dismissed", "none", "workspace", "random", "crimson"}, input : {Null}]
        \cup [id : {"custom"},
              input : {Null, Str(<<>>), Str(<<";">>), Str(<<" ">>), Str(<<"g", ";">>)}]
        \cup [id : {"recent"}, input : {Null, Str(<<"gold">>)}]

ColorInit ==
    /\ wslAnchored = TRUE
    /\ ClassifyIdle
    /\ HexIdle
    /\ OpenIdle
    /\ StoreIdle
    /\ storage = [op |-> "idle"]
    /\ window = [op |-> "idle"]
    /\ lookup = [op |-> "none"]

QueryProjectColor ==
    /\ lookup.op = "none"
    /\ \E picks \in SeqUpTo(ColorAnswers, MaxPicks) :
           lookup' = [op |-> "queryProjectColor", picks |-> picks,
                      result |-> queryProjectColor(picks)]
    /\ UNCHANGED <<wslAnchored, clsVars, hexVars, openVars, storeVars, storage, window>>

ColorNext == QueryProjectColor

SpecColor == ColorInit /\ [][ColorNext]_vars

-----------------------------------------------------------------------------
(* Claims about the color prompts *)

\* the pick sets no color: an empty custom color, or no recent color picked
SetsNoColor(pick) ==
    \/ pick.id = "custom" /\ customColorOf(pick.input) = Str(<<>>)
    \/ pick.id = "recent" /\ pick.input = Null

\* the picks before the i-th set no color, so the i-th pick is shown
Shown(i) == \A k \in 1..(i - 1) : SetsNoColor(lookup.picks[k])

\* C28: queryProjectColor returns null only when the user picks 'None'; every other value
\* it returns is a non-empty string; an empty custom color or a recent pick without a
\* color produces no return value, the color pick is shown again
C28_NullOnlyForNone ==
    lookup.op = "queryProjectColor" =>
        /\ lookup.result = Null =>
               \E i \in DOMAIN lookup.picks : Shown(i) /\ lookup.picks[i].id = "none"
        /\ lookup.result \notin {Null, USER_CANCELED} => Truthy(lookup.result)
        /\ (\A i \in DOMAIN lookup.picks : SetsNoColor(lookup.picks[i]))
               => lookup.result = USER_CANCELED

\* a custom color of nothing but a semicolon, then the pick of a predefined color
C28_Witness ==
    /\ lookup.op = "queryProjectColor"
    /\ Len(lookup.picks) = 2
    /\ lookup.picks[1] = [id |-> "custom", input |-> Str(<<";">>)]
    /\ lookup.picks[2].id = "crimson"
    /\ lookup.result = Str(<<"crimson">>)

-----------------------------------------------------------------------------
(* Claims about the groups of a reordered list *)

\* the call of reorderGroups that reached saveGroups
Reordered == sLast.op = "reorderGroups" /\ sLast.outcome = "reordered"

\* a group without its projects
Header(group) == [id |-> group.id, groupName |-> group.groupName, collapsed |-> group.collapsed]

\* the groups of the list before the call that entry n names
NamedBy(n) == {i \in DOMAIN sLast.before : sLast.before[i].id = sLast.entries[n]}

\* the groups of the list before the call that no entry names
Unnamed == {i \in DOMAIN sLast.before : \A n \in DOMAIN sLast.entries : i \notin NamedBy(n)}

\* one group per entry, in the order of the entries: the group the entry names, or a new
\* group named after the entry's position
OneGroupPerEntry ==
    /\ Len(groups) = Len(sLast.entries)
    /\ \A n \in DOMAIN sLast.entries :
           IF NamedBy(n) # {}
           THEN \E i \in NamedBy(n) : Header(groups[n]) = Header(sLast.before[i])
           ELSE /\ groups[n].groupName = Str(<<"Group #", ToString(n)>>)
                /\ groups[n].id \notin GroupIds(sLast.before)

\* no group of the persisted list is a group that no entry names
UnnamedGroupsAbsent ==
    \A i \in Unnamed : sLast.before[i].id \notin GroupIds(groups)

====
